---------------------------- MODULE Spec2Model ----------------------------
(***************************************************************************)
(* Model of the text normalisers of src/ETL/transform.py: the salary       *)
(* parser, the address splitter and the job-title classifier.              *)
(*                                                                         *)
(* A Python str is a sequence of characters.  A character is written as a  *)
(* TLA+ string: an ASCII character is itself, a letter with diacritics is  *)
(* its base letter followed by its marks (^ circumflex, ( breve, + horn,   *)
(* / acute, ! grave, ? hook above, ~ tilde, . dot below), "d-" is the      *)
(* letter d with stroke, "endash" and "emdash" are the two dashes.  So     *)
(* <<"t","r","i","e^.","u">> is the five-character word for "million".     *)
(***************************************************************************)
EXTENDS Integers, Sequences, FiniteSets, TLC

VARIABLES
    arg,    \* the value the function under test is called with
    pc,     \* "ready" before the call, "done" after it
    fn,     \* the function that was called ("" before the call)
    ret     \* what the call returned (or the exception it raised)

vars == <<arg, pc, fn, ret>>

-----------------------------------------------------------------------------
(* Python values *)

NoneVal == [isNone |-> TRUE]
StrVal(s) == [kind |-> "str", s |-> s]
NonStrings == {[kind |-> "NoneType"], [kind |-> "float"], [kind |-> "int"]}
IsStr(v) == v.kind = "str"
Pending == [pending |-> TRUE]
TypeError == [exc |-> "TypeError"]

-----------------------------------------------------------------------------
(* Characters *)

UPPER == "ABCDEFGHIJKLMNOPQRSTUVWXYZ"
LOWER == "abcdefghijklmnopqrstuvwxyz"
DIGITS == "0123456789"

CharsOf(str) == {SubSeq(str, k, k) : k \in 1..Len(str)}
IndexIn(str, c) == CHOOSE k \in 1..Len(str) : SubSeq(str, k, k) = c

DigitChars == CharsOf(DIGITS)
UpperChars == CharsOf(UPPER)
LowerOf == [c \in UpperChars |-> SubSeq(LOWER, IndexIn(UPPER, c), IndexIn(UPPER, c))]
DigitOf == [c \in DigitChars |-> IndexIn(DIGITS, c) - 1]

IsDigit(c) == c \in DigitChars
SpaceChars == {" ", "\t", "\n"}
IsSpace(c) == c \in SpaceChars

LowerAscii(c) == IF c \in UpperChars THEN LowerOf[c] ELSE c

\* str.lower() of one character: the base letter is lowered, the marks stay.
LowerChar(c) ==
    IF Len(c) = 1 THEN LowerAscii(c)
    ELSE IF c \in {"endash", "emdash", "\t", "\n"} THEN c
    ELSE LowerAscii(SubSeq(c, 1, 1)) \o SubSeq(c, 2, Len(c))

lower(s) == [i \in 1..Len(s) |-> LowerChar(s[i])]

-----------------------------------------------------------------------------
(* Strings *)

\* sub in s
Contains(s, sub) ==
    sub = <<>> \/ \E i \in 1..(Len(s) - Len(sub) + 1) :
        s[i] = sub[1] /\ SubSeq(s, i, i + Len(sub) - 1) = sub

\* s.startswith(sub, i - 1): sub occurs in s at (1-based) position i
HasAt(s, i, sub) ==
    /\ i >= 1
    /\ i + Len(sub) - 1 <= Len(s)
    /\ s[i] = sub[1]
    /\ SubSeq(s, i, i + Len(sub) - 1) = sub

\* The position after the longest run of characters of the class cls
\* starting at i (a greedy [cls]* at i).
RECURSIVE RunEnd(_, _, _)
RunEnd(s, i, cls) ==
    IF i <= Len(s) /\ s[i] \in cls THEN RunEnd(s, i + 1, cls) ELSE i

\* str.strip()
strip(s) ==
    LET keep == {i \in 1..Len(s) : ~IsSpace(s[i])}
    IN IF keep = {} THEN <<>>
       ELSE LET a == CHOOSE i \in keep : \A j \in keep : i <= j
                b == CHOOSE i \in keep : \A j \in keep : i >= j
            IN SubSeq(s, a, b)

\* re.sub(r"\s+", " ", s): every run of whitespace becomes one space
RECURSIVE CollapseFrom(_, _)
CollapseFrom(s, i) ==
    IF i > Len(s) THEN <<>>
    ELSE IF IsSpace(s[i]) THEN <<" ">> \o CollapseFrom(s, RunEnd(s, i, SpaceChars))
    ELSE <<s[i]>> \o CollapseFrom(s, i + 1)

CollapseSpaces(s) ==
    IF \E i \in 1..Len(s) : IsSpace(s[i]) /\ (s[i] # " " \/ (i < Len(s) /\ IsSpace(s[i + 1])))
    THEN CollapseFrom(s, 1)
    ELSE s

\* s.replace(old, new) for a one-character old
ReplaceChar(s, old, new) == [i \in 1..Len(s) |-> IF s[i] = old THEN new ELSE s[i]]

RECURSIVE Concat(_)
Concat(ss) == IF ss = <<>> THEN <<>> ELSE Head(ss) \o Concat(Tail(ss))

RECURSIVE Join(_, _)
Join(ss, sep) ==
    IF ss = <<>> THEN <<>>
    ELSE IF Len(ss) = 1 THEN ss[1]
    ELSE ss[1] \o sep \o Join(Tail(ss), sep)

\* The least element of a non-empty set of integers
Least(S) == CHOOSE i \in S : \A j \in S : i <= j

-----------------------------------------------------------------------------
(* ===== Salary: detect_currency, unit_multiplier, _num, parse_salary ===== *)

W_usd == <<"u", "s", "d">>
W_dollar == <<"$">>
W_k == <<"k">>
W_nghin_acc == <<"n", "g", "h", "i!", "n">>
W_nghin == <<"n", "g", "h", "i", "n">>
W_ty_acc == <<"t", "y?">>
W_ty == <<"t", "y">>
W_trieu_acc == <<"t", "r", "i", "e^.", "u">>
W_trieu == <<"t", "r", "i", "e", "u">>
W_tr == <<"t", "r">>
W_thoa_thuan_1 == <<"t", "h", "o", "a?", " ", "t", "h", "u", "a^.", "n">>
W_thoa_thuan_2 == <<"t", "h", "o?", "a", " ", "t", "h", "u", "a^.", "n">>
W_negotiable == <<"n", "e", "g", "o", "t", "i", "a", "b", "l", "e">>

detect_currency(s0) ==
    LET s == lower(s0)
    IN IF Contains(s, W_usd) \/ Contains(s, W_dollar) THEN "USD" ELSE "VND"

\* Mutant of unit_multiplier: the million markers are tested before the
\* billion markers.
unit_multiplierMillionFirst(s0, currency) ==
    LET s == lower(s0)
    IN IF currency = "USD"
       THEN (IF Contains(s, W_k) \/ Contains(s, W_nghin_acc) THEN 1000 ELSE 1)
       ELSE IF Contains(s, W_trieu_acc) \/ Contains(s, W_trieu) \/ Contains(s, W_tr)
            THEN 1000000
       ELSE IF Contains(s, W_ty_acc) \/ Contains(s, W_ty) THEN 1000000000
       ELSE IF Contains(s, W_nghin_acc) \/ Contains(s, W_nghin) \/ Contains(s, W_k)
            THEN 1000
       ELSE 1

unit_multiplier(s0, currency) ==
    LET s == lower(s0)
    IN IF currency = "USD"
       THEN (IF Contains(s, W_k) \/ Contains(s, W_nghin_acc) THEN 1000 ELSE 1)
       ELSE IF Contains(s, W_ty_acc) \/ Contains(s, W_ty) THEN 1000000000
       ELSE IF Contains(s, W_trieu_acc) \/ Contains(s, W_trieu) \/ Contains(s, W_tr)
            THEN 1000000
       ELSE IF Contains(s, W_nghin_acc) \/ Contains(s, W_nghin) \/ Contains(s, W_k)
            THEN 1000
       ELSE 1

\* int() of a run of decimal digits
RECURSIVE DigitsValue(_)
DigitsValue(ds) ==
    IF ds = <<>> THEN 0
    ELSE 10 * DigitsValue(SubSeq(ds, 1, Len(ds) - 1)) + DigitOf[ds[Len(ds)]]

\* A float read from decimal text: digits / 10^scale.  digits holds the
\* integer and the fraction digits together.
Float(intDigits, fracDigits) ==
    [digits |-> DigitsValue(intDigits \o fracDigits), scale |-> Len(fracDigits)]

\* Mutant of _num: the whole token must be a number (re.fullmatch), so a
\* token with a second separator gives None.
_numFullMatch(tok0) ==
    LET tok == ReplaceChar(tok0, ",", ".")
        e == IF tok # <<>> /\ IsDigit(tok[1]) THEN RunEnd(tok, 1, DigitChars) ELSE 0
        hasFrac == /\ e > 0
                   /\ e + 1 <= Len(tok)
                   /\ tok[e] = "."
                   /\ IsDigit(tok[e + 1])
        f == IF hasFrac THEN RunEnd(tok, e + 1, DigitChars) ELSE e
    IN IF e = 0 \/ f # Len(tok) + 1 THEN NoneVal
       ELSE Float(SubSeq(tok, 1, e - 1),
                  IF hasFrac THEN SubSeq(tok, e + 1, f - 1) ELSE <<>>)

\* _num: "," becomes ".", then the first match of (\d+(?:\.\d+)?), else None
_num(tok0) ==
    LET tok == ReplaceChar(tok0, ",", ".")
        starts == {i \in 1..Len(tok) : IsDigit(tok[i])}
    IN IF starts = {} THEN NoneVal
       ELSE LET i == Least(starts)
                e == RunEnd(tok, i, DigitChars)
                hasFrac == /\ e + 1 <= Len(tok)
                           /\ tok[e] = "."
                           /\ IsDigit(tok[e + 1])
                f == IF hasFrac THEN RunEnd(tok, e + 1, DigitChars) ELSE e
            IN Float(SubSeq(tok, i, e - 1),
                     IF hasFrac THEN SubSeq(tok, e + 1, f - 1) ELSE <<>>)

\* x * mult for a float x; None * float raises TypeError.  The product is kept
\* as digits / 10^scale * mult.
Times(x, mult) ==
    IF x = NoneVal THEN TypeError
    ELSE [digits |-> x.digits, scale |-> x.scale, mult |-> mult]

NumChars == DigitChars \cup {".", ","}

NoMatch == [matched |-> FALSE]

\* (\d[\d\.,]*) at i: the position after it, or 0 when s[i] is no digit
NumberEnd(s, i) ==
    IF i <= Len(s) /\ IsDigit(s[i]) THEN RunEnd(s, i + 1, NumChars) ELSE 0

\* The first alternative of alts (in order) that occurs at i, or <<>>
FirstAlt(s, i, alts) ==
    LET hits == {k \in 1..Len(alts) : HasAt(s, i, alts[k])}
    IN IF hits = {} THEN <<>> ELSE alts[Least(hits)]

RANGE_SEPS ==
    << <<"-">>,
       <<"endash">>,
       <<"emdash">>,
       <<"t", "o">>,
       <<"d-", "e^/", "n">>,
       <<"~">> >>
CEILING_WORDS ==
    << <<"t", "o+/", "i">>,
       <<"d-", "e^/", "n">>,
       <<"u", "p", " ", "t", "o">>,
       <<"<", "=">> >>
FLOOR_WORDS ==
    << <<"t", "r", "e^", "n">>,
       <<">", "=">>,
       <<"f", "r", "o", "m">>,
       <<"t", "u+!">> >>

\* (\d[\d\.,]*)\s*(?:-|...|~)\s*(\d[\d\.,]*)\s*(.*)$ anchored at i
RangeAt(s, i) ==
    LET e1 == NumberEnd(s, i)
    IN IF e1 = 0 THEN NoMatch
       ELSE LET p == RunEnd(s, e1, SpaceChars)
                sep == FirstAlt(s, p, RANGE_SEPS)
            IN IF sep = <<>> THEN NoMatch
               ELSE LET q == RunEnd(s, p + Len(sep), SpaceChars)
                        e2 == NumberEnd(s, q)
                    IN IF e2 = 0 THEN NoMatch
                       ELSE [matched |-> TRUE,
                             lo |-> SubSeq(s, i, e1 - 1),
                             hi |-> SubSeq(s, q, e2 - 1),
                             tail |-> SubSeq(s, RunEnd(s, e2, SpaceChars), Len(s))]

\* (w1|w2|...)\s*(\d[\d\.,]*)\s*(.*)$ anchored at i
QualifiedAt(s, i, words) ==
    LET w == FirstAlt(s, i, words)
    IN IF w = <<>> THEN NoMatch
       ELSE LET q == RunEnd(s, i + Len(w), SpaceChars)
                e == NumberEnd(s, q)
            IN IF e = 0 THEN NoMatch
               ELSE [matched |-> TRUE,
                     x |-> SubSeq(s, q, e - 1),
                     tail |-> SubSeq(s, RunEnd(s, e, SpaceChars), Len(s))]

\* (\d[\d\.,]*)\s*(.*)$ anchored at i
PointAt(s, i) ==
    LET e == NumberEnd(s, i)
    IN IF e = 0 THEN NoMatch
       ELSE [matched |-> TRUE,
             x |-> SubSeq(s, i, e - 1),
             tail |-> SubSeq(s, RunEnd(s, e, SpaceChars), Len(s))]

\* re.search: the match at the leftmost position where the pattern matches
RECURSIVE SearchRangeFrom(_, _)
SearchRangeFrom(s, i) ==
    IF i > Len(s) THEN NoMatch
    ELSE LET m == RangeAt(s, i) IN IF m.matched THEN m ELSE SearchRangeFrom(s, i + 1)

RECURSIVE SearchQualifiedFrom(_, _, _)
SearchQualifiedFrom(s, i, words) ==
    IF i > Len(s) THEN NoMatch
    ELSE LET m == QualifiedAt(s, i, words)
         IN IF m.matched THEN m ELSE SearchQualifiedFrom(s, i + 1, words)

RECURSIVE SearchPointFrom(_, _)
SearchPointFrom(s, i) ==
    IF i > Len(s) THEN NoMatch
    ELSE LET m == PointAt(s, i) IN IF m.matched THEN m ELSE SearchPointFrom(s, i + 1)

SearchRange(s) == SearchRangeFrom(s, 1)
SearchCeiling(s) == SearchQualifiedFrom(s, 1, CEILING_WORDS)
SearchFloor(s) == SearchQualifiedFrom(s, 1, FLOOR_WORDS)
SearchPoint(s) == SearchPointFrom(s, 1)

Salary(mn, mx, cur, note) == [min |-> mn, max |-> mx, currency |-> cur, note |-> note]

\* A tuple built from products: building it raises when a product raised.
SalaryOf(mn, mx, cur, note) ==
    IF mn = TypeError \/ mx = TypeError THEN TypeError ELSE Salary(mn, mx, cur, note)

\* Mutant of SalaryText: the text is not lowered.
SalaryTextNoLower(text) == CollapseSpaces(strip(text))

\* re.sub(r"\s+", " ", text.strip()).lower()
SalaryText(text) == lower(CollapseSpaces(strip(text)))

HasNegotiable(s) ==
    Contains(s, W_thoa_thuan_1) \/ Contains(s, W_thoa_thuan_2) \/ Contains(s, W_negotiable)

ParseRange(m, cur) ==
    LET mult == unit_multiplier(m.tail, cur)
    IN SalaryOf(Times(_num(m.lo), mult), Times(_num(m.hi), mult), cur, "range")

ParseCeiling(m, cur) ==
    SalaryOf(NoneVal, Times(_num(m.x), unit_multiplier(m.tail, cur)), cur, "ceiling")

\* Mutant of ParseFloor: the bound is stored as both min and max.
ParseFloorBothBounds(m, cur) ==
    LET v == Times(_num(m.x), unit_multiplier(m.tail, cur))
    IN SalaryOf(v, v, cur, "floor")

ParseFloor(m, cur) ==
    SalaryOf(Times(_num(m.x), unit_multiplier(m.tail, cur)), NoneVal, cur, "floor")

ParsePoint(m, cur) ==
    LET v == Times(_num(m.x), unit_multiplier(m.tail, cur))
    IN SalaryOf(v, v, cur, "point")

\* Mutant of ParseNormalized: the floor pattern is tried before the ceiling
\* pattern.
ParseNormalizedFloorFirst(s) ==
    IF HasNegotiable(s) THEN Salary(NoneVal, NoneVal, "VND", "negotiable")
    ELSE LET cur == detect_currency(s)
             mr == SearchRange(s)
             mc == SearchCeiling(s)
             mf == SearchFloor(s)
             mp == SearchPoint(s)
         IN IF mr.matched THEN ParseRange(mr, cur)
            ELSE IF mf.matched THEN ParseFloor(mf, cur)
            ELSE IF mc.matched THEN ParseCeiling(mc, cur)
            ELSE IF mp.matched THEN ParsePoint(mp, cur)
            ELSE Salary(NoneVal, NoneVal, cur, "unparsed")

ParseNormalized(s) ==
    IF HasNegotiable(s) THEN Salary(NoneVal, NoneVal, "VND", "negotiable")
    ELSE LET cur == detect_currency(s)
             mr == SearchRange(s)
             mc == SearchCeiling(s)
             mf == SearchFloor(s)
             mp == SearchPoint(s)
         IN IF mr.matched THEN ParseRange(mr, cur)
            ELSE IF mc.matched THEN ParseCeiling(mc, cur)
            ELSE IF mf.matched THEN ParseFloor(mf, cur)
            ELSE IF mp.matched THEN ParsePoint(mp, cur)
            ELSE Salary(NoneVal, NoneVal, cur, "unparsed")

parse_salary(text) ==
    IF ~IsStr(text) \/ strip(text.s) = <<>>
    THEN Salary(NoneVal, NoneVal, "VND", "empty")
    ELSE ParseNormalized(SalaryText(text.s))

-----------------------------------------------------------------------------
(* Bounded inputs: texts made of at most n words of a vocabulary, joined by *)
(* one separator.                                                          *)

WordLists(words, n) == UNION {[1..k -> words] : k \in 0..n}
Texts(words, seps, n) == {Join(ws, sep) : ws \in WordLists(words, n), sep \in seps}

MaxSalaryWords == 3

S_ten == <<"1", "0">>
S_one_half == <<"1", ",", "5">>
S_up == <<"1", "0", " ", "-", " ", "2", "0">>
S_den == <<"d-", "e^/", "n">>
S_up_to_20 == <<"u", "p", " ", "t", "o", " ", "2", "0">>
S_tu == <<"t", "u+!">>
S_USD == <<"U", "S", "D">>
S_k == <<"k">>
S_Trieu == <<"T", "r", "i", "e^.", "u">>
S_ty == <<"t", "y?">>
S_nghin == <<"n", "g", "h", "i!", "n">>
S_Thoa_thuan == <<"T", "h", "o", "a?", " ", "t", "h", "u", "a^.", "n">>
S_blank == <<" ", "\t">>

SalaryWords ==
    {S_ten, S_one_half, S_up, S_den, S_up_to_20, S_tu, S_USD, S_k, S_Trieu,
     S_ty, S_nghin, S_Thoa_thuan, S_blank}

SalaryInputs ==
    NonStrings \cup {StrVal(t) : t \in Texts(SalaryWords, {<<>>, <<" ">>}, MaxSalaryWords)}

InitSalary ==
    /\ arg \in SalaryInputs
    /\ pc = "ready"
    /\ fn = ""
    /\ ret = Pending

CallParseSalary ==
    /\ pc = "ready"
    /\ pc' = "done"
    /\ fn' = "parse_salary"
    /\ ret' = parse_salary(arg)
    /\ UNCHANGED arg

NextSalary == CallParseSalary

SpecSalary == InitSalary /\ [][NextSalary]_vars

-----------------------------------------------------------------------------
(* Properties of parse_salary *)

SalaryCalled == pc = "done" /\ fn = "parse_salary"
SalaryReturned == SalaryCalled /\ DOMAIN ret = {"min", "max", "currency", "note"}
IsBlank(v) == ~IsStr(v) \/ \A i \in 1..Len(v.s) : IsSpace(v.s[i])
HasValue(x) == x # NoneVal
HasDigit(s) == \E i \in 1..Len(s) : IsDigit(s[i])
NoPatternMatches(s) ==
    /\ ~SearchRange(s).matched
    /\ ~SearchCeiling(s).matched
    /\ ~SearchFloor(s).matched
    /\ ~SearchPoint(s).matched

SALARY_NOTES == {"range", "floor", "ceiling", "point", "negotiable", "empty", "unparsed"}

\* C2: the note determines which of min and max are null: range and point
\* have both (point has them equal), floor has only min, ceiling has only max,
\* negotiable, empty and unparsed have neither; currency is "VND" or "USD".
NoteDeterminesBounds ==
    SalaryReturned =>
        /\ ret.currency \in {"VND", "USD"}
        /\ ret.note \in SALARY_NOTES
        /\ ret.note \in {"range", "point"} => HasValue(ret.min) /\ HasValue(ret.max)
        /\ ret.note = "point" => ret.min = ret.max
        /\ ret.note = "floor" => HasValue(ret.min) /\ ~HasValue(ret.max)
        /\ ret.note = "ceiling" => ~HasValue(ret.min) /\ HasValue(ret.max)
        /\ ret.note \in {"negotiable", "empty", "unparsed"}
            => ~HasValue(ret.min) /\ ~HasValue(ret.max)

\* C2 witness: a floor result, with min set and max null.
SalaryFloorReached ==
    /\ SalaryReturned
    /\ ret.note = "floor"
    /\ HasValue(ret.min)
    /\ ret.max = NoneVal

NOTE_ORDER == <<"empty", "negotiable", "range", "ceiling", "floor", "point", "unparsed">>

\* The case of parse_salary that the value v satisfies
SatisfiesCase(v, note) ==
    IF note = "empty" THEN IsBlank(v)
    ELSE IF IsBlank(v) THEN FALSE
    ELSE LET s == SalaryText(v.s)
         IN CASE note = "negotiable" -> HasNegotiable(s)
              [] note = "range" -> SearchRange(s).matched
              [] note = "ceiling" -> SearchCeiling(s).matched
              [] note = "floor" -> SearchFloor(s).matched
              [] note = "point" -> SearchPoint(s).matched
              [] OTHER -> TRUE

\* The first case from position i of NOTE_ORDER on that v satisfies
RECURSIVE FirstCase(_, _)
FirstCase(v, i) ==
    IF SatisfiesCase(v, NOTE_ORDER[i]) THEN i ELSE FirstCase(v, i + 1)

\* C3: the note is that of the first case, in the order empty, negotiable,
\* range, ceiling, floor, point, unparsed, that the input satisfies; a null,
\* non-string or blank input returns (None, None, "VND", "empty").
FirstMatchOrder ==
    SalaryReturned =>
        /\ ret.note = NOTE_ORDER[FirstCase(arg, 1)]
        /\ IsBlank(arg) => ret = Salary(NoneVal, NoneVal, "VND", "empty")

\* C3 witness: the ceiling and the floor pattern both match, no range does,
\* and the note is "ceiling".
SalaryCeilingOverFloorReached ==
    /\ SalaryReturned
    /\ ~IsBlank(arg)
    /\ SatisfiesCase(arg, "ceiling")
    /\ SatisfiesCase(arg, "floor")
    /\ ~SatisfiesCase(arg, "range")
    /\ ret.note = "ceiling"

NEGOTIATION_MARKERS == {W_thoa_thuan_1, W_thoa_thuan_2, W_negotiable}

\* C4: a non-blank text containing a negotiation marker in any letter case
\* returns (None, None, "VND", "negotiable") whatever else it contains.
NegotiableWins ==
    (SalaryCalled /\ ~IsBlank(arg)
        /\ \E w \in NEGOTIATION_MARKERS : Contains(lower(arg.s), w))
    => ret = Salary(NoneVal, NoneVal, "VND", "negotiable")

\* C4 witness: a negotiable result for a text that also holds a number and a
\* USD marker.
SalaryNegotiableWithNumberReached ==
    /\ SalaryReturned
    /\ IsStr(arg)
    /\ HasDigit(arg.s)
    /\ Contains(lower(arg.s), W_usd)
    /\ ret.note = "negotiable"

RECURSIVE Pow10(_)
Pow10(n) == IF n = 0 THEN 1 ELSE 10 * Pow10(n - 1)

\* a <= b for two products with the same multiplier
FloatLE(a, b) == a.digits * Pow10(b.scale) <= b.digits * Pow10(a.scale)

\* C5 (as claimed): for every result with note "range", min_salary is at most
\* max_salary.
RangeMinLeMax ==
    (SalaryReturned /\ ret.note = "range" /\ ret.min.mult = ret.max.mult)
        => FloatLE(ret.min, ret.max)

BILLION_MARKERS == {W_ty_acc, W_ty}
MILLION_MARKERS == {W_trieu_acc, W_trieu, W_tr}
THOUSAND_MARKERS == {W_nghin_acc, W_nghin, W_k}
USD_THOUSAND_MARKERS == {W_k, W_nghin_acc}
HasMarker(s, markers) == \E w \in markers : Contains(s, w)

ExpectedMultiplier(tail, currency) ==
    IF currency = "USD"
    THEN (IF HasMarker(tail, USD_THOUSAND_MARKERS) THEN 1000 ELSE 1)
    ELSE IF HasMarker(tail, BILLION_MARKERS) THEN 1000000000
    ELSE IF HasMarker(tail, MILLION_MARKERS) THEN 1000000
    ELSE IF HasMarker(tail, THOUSAND_MARKERS) THEN 1000
    ELSE 1

\* The match of the pattern a note stands for
MatchOfNote(s, note) ==
    CASE note = "range" -> SearchRange(s)
      [] note = "ceiling" -> SearchCeiling(s)
      [] note = "floor" -> SearchFloor(s)
      [] note = "point" -> SearchPoint(s)

\* C6: every parsed number is scaled by the unit multiplier of the text that
\* trails the last number of the match, by substring and first match: USD has
\* x1000 for "k" or the thousand word and x1 otherwise; VND has x1e9 for a
\* billion marker, else x1e6 for a million marker, else x1e3 for a thousand
\* marker or "k", else x1.  Both numbers of a range have the same multiplier.
MultiplierFromTail ==
    (SalaryReturned /\ ret.note \in {"range", "ceiling", "floor", "point"}) =>
        LET m == MatchOfNote(SalaryText(arg.s), ret.note)
            expected == ExpectedMultiplier(m.tail, ret.currency)
        IN /\ m.matched
           /\ HasValue(ret.min) => ret.min.mult = expected
           /\ HasValue(ret.max) => ret.max.mult = expected

\* C6 witness: a VND range whose trailing text holds a billion and a million
\* marker; both bounds are scaled by 1e9.
SalaryRangeBillionReached ==
    /\ SalaryReturned
    /\ ret.note = "range"
    /\ ret.currency = "VND"
    /\ HasMarker(MatchOfNote(SalaryText(arg.s), "range").tail, BILLION_MARKERS)
    /\ HasMarker(MatchOfNote(SalaryText(arg.s), "range").tail, MILLION_MARKERS)
    /\ ret.min.mult = 1000000000
    /\ ret.max.mult = 1000000000

-----------------------------------------------------------------------------
(* ===== Job title: _strip_accents, _norm_job_text, _job_seniority,      ===== *)
(* ===== _job_group, collapse_map                                        ===== *)

\* The characters of an ASCII string
Chars(str) == [i \in 1..Len(str) |-> SubSeq(str, i, i)]

\* str(s)
PyStr(v) == IF IsStr(v) THEN v.s ELSE Chars(v.repr)

\* A letter with combining marks: its name is the base letter and the marks.
HasMarks(c) == Len(c) > 1 /\ c \notin {"d-", "D-", "endash", "emdash", "\t", "\n"}

\* NFD, then every combining mark (category Mn) is dropped
_strip_accents(s) == [i \in 1..Len(s) |-> IF HasMarks(s[i]) THEN SubSeq(s[i], 1, 1) ELSE s[i]]

\* \w: letters, digits and the underscore
WordChars == CharsOf(UPPER) \cup CharsOf(LOWER) \cup DigitChars \cup {"_", "d-", "D-"}
IsWordChar(c) == c \in WordChars \/ HasMarks(c)

\* s.replace(old, new)
RECURSIVE ReplaceFrom(_, _, _, _)
ReplaceFrom(s, i, old, new) ==
    IF i > Len(s) THEN <<>>
    ELSE IF HasAt(s, i, old) THEN new \o ReplaceFrom(s, i + Len(old), old, new)
    ELSE <<s[i]>> \o ReplaceFrom(s, i + 1, old, new)

Replace(s, old, new) == IF Contains(s, old) THEN ReplaceFrom(s, 1, old, new) ELSE s

\* re.sub(r"[^\w\s\+\.#/-]", " ", s)
TitleKeptChars == {"+", ".", "#", "/", "-"}
DropPunctuation(s) ==
    [i \in 1..Len(s) |->
        IF IsWordChar(s[i]) \/ IsSpace(s[i]) \/ s[i] \in TitleKeptChars THEN s[i] ELSE " "]

\* re.sub(r"[-_/]", " ", s)
SplitJoiners(s) == [i \in 1..Len(s) |-> IF s[i] \in {"-", "_", "/"} THEN " " ELSE s[i]]

TECH_TOKENS ==
    << <<Chars("node.js"), Chars("nodejs")>>,
       <<Chars("next.js"), Chars("nextjs")>>,
       <<Chars("nuxt.js"), Chars("nuxtjs")>>,
       <<Chars("c/c++"), Chars("cpp")>>,
       <<Chars("c++"), Chars("cpp")>>,
       <<Chars("c#"), Chars("csharp")>>,
       <<Chars(".net"), Chars("dotnet")>> >>

\* The chain of replacements, the first n of them applied in order
RECURSIVE UnifyFirst(_, _)
UnifyFirst(s, n) ==
    IF n = 0 THEN s
    ELSE Replace(UnifyFirst(s, n - 1), TECH_TOKENS[n][1], TECH_TOKENS[n][2])

UnifyTechTokens(s) == UnifyFirst(s, Len(TECH_TOKENS))

_norm_job_text(v) ==
    LET s1 == strip(lower(_strip_accents(PyStr(v))))
        s2 == UnifyTechTokens(s1)
        s3 == DropPunctuation(s2)
        s4 == SplitJoiners(s3)
    IN strip(CollapseSpaces(s4))

\* \b between the characters k and k+1 of txt (k = 0 and k = Len(txt) are its ends)
IsWordAt(txt, k) == k >= 1 /\ k <= Len(txt) /\ IsWordChar(txt[k])
Boundary(txt, k) == IsWordAt(txt, k) # IsWordAt(txt, k + 1)

\* Every substring of txt that has a \b on both sides
BoundedSubstrings(txt) ==
    LET bs == {k \in 0..Len(txt) : Boundary(txt, k)}
    IN {SubSeq(txt, i + 1, j) : <<i, j>> \in {p \in bs \X bs : p[1] < p[2]}}

\* A pattern \b(l1|l2|...)\b is the set of its literals.  On a normalised
\* title every run of whitespace is one space, so \s* stands for an optional
\* space.
Compile(pat) == {Chars(lit) : lit \in pat}

\* p.search(txt), given the substrings of txt between two \b
RegexSearch(p, subs) == \E lit \in p : lit \in subs

SENIORITY_PATTERNS ==
    << [lvl |-> "intern",
        pats |-> << {"intern"}, {"thuc tap"}, {"thuc tap sinh"} >>],
       [lvl |-> "fresher",
        pats |-> << {"fresher"} >>],
       [lvl |-> "junior",
        pats |-> << {"junior"}, {"jr"} >>],
       [lvl |-> "mid",
        pats |-> << {"mid"}, {"middle"}, {"mid level"} >>],
       [lvl |-> "senior",
        pats |-> << {"senior"}, {"sr"} >>],
       [lvl |-> "lead",
        pats |-> << {"lead"}, {"tech lead"}, {"leader"} >>],
       [lvl |-> "principal",
        pats |-> << {"principal"} >>],
       [lvl |-> "manager",
        pats |-> << {"manager"}, {"engineering manager"}, {"quan ly"} >>],
       [lvl |-> "director",
        pats |-> << {"director"} >>],
       [lvl |-> "head",
        pats |-> << {"head"}, {"head of"} >>],
       [lvl |-> "vp",
        pats |-> << {"vice president"}, {"vp"} >>],
       [lvl |-> "cto",
        pats |-> << {"cto"}, {"chief technology officer"} >>] >>

_COMPILED_SENIORITY ==
    [i \in 1..Len(SENIORITY_PATTERNS) |->
        [lvl |-> SENIORITY_PATTERNS[i].lvl,
         pats |-> [j \in 1..Len(SENIORITY_PATTERNS[i].pats) |->
                      Compile(SENIORITY_PATTERNS[i].pats[j])]]]

AnyPatternMatches(pats, subs) == \E j \in 1..Len(pats) : RegexSearch(pats[j], subs)

\* Mutant of _job_seniority: the level whose word comes first in the title.
_job_seniorityLeftmost(title) ==
    LET txt == _norm_job_text(title)
        hit(i, k) == \E j \in 1..Len(_COMPILED_SENIORITY[i].pats) :
                        \E lit \in _COMPILED_SENIORITY[i].pats[j] :
                            /\ HasAt(txt, k, lit)
                            /\ Boundary(txt, k - 1)
                            /\ Boundary(txt, k + Len(lit) - 1)
        hits == {k \in 1..Len(txt) : \E i \in 1..Len(_COMPILED_SENIORITY) : hit(i, k)}
    IN IF hits = {} THEN "unknown"
       ELSE _COMPILED_SENIORITY[
                Least({i \in 1..Len(_COMPILED_SENIORITY) : hit(i, Least(hits))})].lvl

RECURSIVE SeniorityFrom(_, _)
SeniorityFrom(subs, i) ==
    IF i > Len(_COMPILED_SENIORITY) THEN "unknown"
    ELSE IF AnyPatternMatches(_COMPILED_SENIORITY[i].pats, subs)
         THEN _COMPILED_SENIORITY[i].lvl
    ELSE SeniorityFrom(subs, i + 1)

_job_seniority(title) == SeniorityFrom(BoundedSubstrings(_norm_job_text(title)), 1)

GROUP_RULES ==
    << [grp |-> "fullstack_engineer",
        pats |-> << {"full stack", "fullstack"}, {"fullstack"}, {"mern"},
                    {"mean"}, {"mevn"} >>],
       [grp |-> "backend_engineer",
        pats |-> << {"backend"}, {"back end", "backend"}, {"be"},
                    {"server side", "serverside"},
                    {"api dev", "api developer", "api engineer"}, {"java"},
                    {"spring"}, {"dotnet"}, {"csharp"}, {"python"},
                    {"django"}, {"flask"}, {"fastapi"}, {"nodejs"},
                    {"express"}, {"nestjs"}, {"go"}, {"golang"}, {"rust"},
                    {"scala"}, {"php"}, {"laravel"}, {"symfony"}, {"ruby"},
                    {"rails"} >>],
       [grp |-> "frontend_engineer",
        pats |-> << {"frontend"}, {"front end", "frontend"},
                    {"web developer"}, {"react"}, {"nextjs"}, {"angular"},
                    {"angularjs"}, {"vue"}, {"nuxtjs"}, {"svelte"},
                    {"javascript"}, {"typescript"}, {"html"}, {"css"} >>],
       [grp |-> "mobile_engineer",
        pats |-> << {"mobile"}, {"android"}, {"ios"}, {"flutter"},
                    {"react native"}, {"xamarin"}, {"swift"}, {"kotlin"} >>],
       [grp |-> "data_engineer",
        pats |-> << {"data engineer"}, {"etl"}, {"pipeline"},
                    {"ingest", "ingestion"}, {"airflow"}, {"spark"},
                    {"hadoop"}, {"databricks"}, {"snowflake"}, {"redshift"},
                    {"big data", "bigdata"}, {"glue"}, {"dwh"},
                    {"analytics engineer"}, {"dbt"} >>],
       [grp |-> "data_science_ml_ai",
        pats |-> << {"data scientist"}, {"ml engineer"}, {"machine learning"},
                    {"deep learning"}, {"ai engineer"}, {"nlp"},
                    {"computer vision"}, {"research scientist"},
                    {"research engineer"} >>],
       [grp |-> "data_analyst_bi",
        pats |-> << {"data analyst"}, {"bi"}, {"bi analyst"}, {"power bi"},
                    {"tableau"}, {"looker"}, {"dax"}, {"report", "reporting"},
                    {"business intelligence"}, {"analytics"},
                    {"business analyst"} >>],
       [grp |-> "mlops_dataops",
        pats |-> << {"mlops"}, {"dataops"}, {"feature store"},
                    {"model serving"}, {"model ops"} >>],
       [grp |-> "devops_sre_cloud",
        pats |-> << {"devops"}, {"sre"}, {"platform engineer"},
                    {"cloud engineer"}, {"kubernetes"}, {"k8s"}, {"docker"},
                    {"terraform"}, {"helm"}, {"ci/cd", "cicd"}, {"gcp"},
                    {"aws"}, {"azure"},
                    {"infra", "infrastructure", "it infra", "it infrastructure", "itinfra", "itinfrastructure"},
                    {"infrastructure"},
                    {"platform", "platform engineer", "platform ops", "platform team"} >>],
       [grp |-> "qa_testing",
        pats |-> << {"qa"}, {"quality assurance"}, {"tester"}, {"testing"},
                    {"automation tester"}, {"manual tester"}, {"sdet"},
                    {"quality engineer"} >>],
       [grp |-> "security",
        pats |-> << {"security"}, {"infosec"}, {"secops"}, {"soc"},
                    {"pentest", "pentester"}, {"appsec"}, {"iam"},
                    {"security engineer"} >>],
       [grp |-> "database_admin",
        pats |-> << {"dba"}, {"database administrator"}, {"postgres"},
                    {"mysql"}, {"sql server"}, {"oracle"}, {"mongodb"},
                    {"redis"} >>],
       [grp |-> "network_engineer",
        pats |-> << {"network"}, {"network engineer"},
                    {"network admin", "network administrator"}, {"cisco"} >>],
       [grp |-> "sysadmin_it_support",
        pats |-> << {"sysadmin"}, {"system administrator"}, {"it admin"},
                    {"it support"}, {"help desk", "helpdesk"},
                    {"desktop support"}, {"noc"}, {"application support"},
                    {"it application support"} >>],
       [grp |-> "architect",
        pats |-> << {"software architect"},
                    {"solution architect", "solutions architect"},
                    {"enterprise architect"} >>],
       [grp |-> "product_manager",
        pats |-> << {"product manager"}, {"pm"}, {"product owner"}, {"po"} >>],
       [grp |-> "project_delivery",
        pats |-> << {"project manager"}, {"scrum master"}, {"agile coach"} >>],
       [grp |-> "design_ui_ux",
        pats |-> << {"ui/ux"}, {"ui"}, {"ux"}, {"product designer"},
                    {"ux researcher"}, {"graphic design", "graphic designer"} >>],
       [grp |-> "game_dev",
        pats |-> << {"game developer"}, {"unity"}, {"unreal"},
                    {"game programmer"}, {"game designer"} >>],
       [grp |-> "embedded_firmware_iot",
        pats |-> << {"embedded"}, {"firmware"}, {"iot"}, {"rtos"},
                    {"microcontroller"} >>],
       [grp |-> "blockchain_web3",
        pats |-> << {"blockchain"}, {"web3"}, {"solidity"},
                    {"smart contract"}, {"defi"} >>],
       [grp |-> "erp_crm",
        pats |-> << {"erp"}, {"sap"}, {"odoo"}, {"dynamics"}, {"salesforce"},
                    {"crm"} >>],
       [grp |-> "rpa_engineer",
        pats |-> << {"rpa"}, {"uipath"}, {"blue prism"},
                    {"automation anywhere"} >>],
       [grp |-> "devrel",
        pats |-> << {"developer relations"}, {"devrel"},
                    {"developer advocate"}, {"evangelist"} >>],
       [grp |-> "solutions_sales_engineer",
        pats |-> << {"solution engineer", "solutions engineer"},
                    {"pre sales", "pre-sales"}, {"solution consultant"} >>],
       [grp |-> "technical_writer",
        pats |-> << {"technical writer"}, {"documentation"} >>],
       [grp |-> "software_engineer_general",
        pats |-> << {"software engineer"}, {"software developer"},
                    {"developer"}, {"programmer"}, {"swe"}, {"sde"},
                    {"engineer"}, {"lap trinh vien"}, {"lap trinh"},
                    {"ky su phan mem"}, {"chuyen vien lap trinh"} >>] >>

_COMPILED_RULES ==
    [i \in 1..Len(GROUP_RULES) |->
        [grp |-> GROUP_RULES[i].grp,
         pats |-> [j \in 1..Len(GROUP_RULES[i].pats) |-> Compile(GROUP_RULES[i].pats[j])]]]

\* Mutant of _job_group: the loop does not stop at the first category that
\* matches, the last one wins.
RECURSIVE LastGroupFrom(_, _)
LastGroupFrom(subs, i) ==
    IF i < 1 THEN "other_it"
    ELSE IF AnyPatternMatches(_COMPILED_RULES[i].pats, subs) THEN _COMPILED_RULES[i].grp
    ELSE LastGroupFrom(subs, i - 1)

_job_groupLastMatch(title) ==
    LastGroupFrom(BoundedSubstrings(_norm_job_text(title)), Len(_COMPILED_RULES))

RECURSIVE GroupFrom(_, _)
GroupFrom(subs, i) ==
    IF i > Len(_COMPILED_RULES) THEN "other_it"
    ELSE IF AnyPatternMatches(_COMPILED_RULES[i].pats, subs) THEN _COMPILED_RULES[i].grp
    ELSE GroupFrom(subs, i + 1)

_job_group(title) == GroupFrom(BoundedSubstrings(_norm_job_text(title)), 1)

\* Mutant of collapse_map: the entry of rpa_engineer is missing.
collapse_mapWithoutRpa ==
    [g \in {GROUP_RULES[i].grp : i \in 1..Len(GROUP_RULES)} \ {"rpa_engineer"} |->
        "software_engineering"]

collapse_map ==
    "software_engineer_general" :> "software_engineering" @@
    "backend_engineer" :> "software_engineering" @@
    "frontend_engineer" :> "software_engineering" @@
    "fullstack_engineer" :> "software_engineering" @@
    "mobile_engineer" :> "software_engineering" @@
    "game_dev" :> "software_engineering" @@
    "embedded_firmware_iot" :> "software_engineering" @@
    "blockchain_web3" :> "software_engineering" @@
    "erp_crm" :> "software_engineering" @@
    "rpa_engineer" :> "software_engineering" @@
    "architect" :> "software_engineering" @@
    "data_engineer" :> "data" @@
    "data_analyst_bi" :> "data" @@
    "data_science_ml_ai" :> "data" @@
    "mlops_dataops" :> "data" @@
    "devops_sre_cloud" :> "infra_cloud" @@
    "qa_testing" :> "qa_testing" @@
    "security" :> "security" @@
    "sysadmin_it_support" :> "it_ops_support" @@
    "database_admin" :> "it_ops_support" @@
    "network_engineer" :> "it_ops_support" @@
    "product_manager" :> "product_project" @@
    "project_delivery" :> "product_project" @@
    "design_ui_ux" :> "design" @@
    "devrel" :> "other" @@
    "solutions_sales_engineer" :> "other" @@
    "technical_writer" :> "other" @@
    "other_it" :> "other"

\* out["job_title_group"].map(collapse_map).fillna("other"), for one row
MapFillna(g) == IF g \in DOMAIN collapse_map THEN collapse_map[g] ELSE "other"

\* The job-title columns transform() adds to a row
TransformJobTitle(title) ==
    LET g == _job_group(title)
    IN [job_title_group |-> g,
        job_seniority |-> _job_seniority(title),
        job_title_group_big |-> MapFillna(g)]

MaxTitleWords == 2

T_Full_Stack == <<"F", "u", "l", "l", "-", "S", "t", "a", "c", "k">>
T_Node_js == <<"N", "o", "d", "e", ".", "j", "s">>
T_React == <<"R", "e", "a", "c", "t">>
T_Fresher_Android == <<"F", "r", "e", "s", "h", "e", "r", " ", "A", "n", "d", "r", "o", "i", "d">>
T_Data_Engineer == <<"D", "a", "t", "a", " ", "E", "n", "g", "i", "n", "e", "e", "r">>
T_Machine_Learning == <<"M", "a", "c", "h", "i", "n", "e", " ", "L", "e", "a", "r", "n", "i", "n", "g">>
T_Business_Analyst == <<"B", "u", "s", "i", "n", "e", "s", "s", " ", "A", "n", "a", "l", "y", "s", "t">>
T_MLOps == <<"M", "L", "O", "p", "s">>
T_Platform == <<"(", "P", "l", "a", "t", "f", "o", "r", "m", ")">>
T_Junior_QA == <<"J", "u", "n", "i", "o", "r", " ", "Q", "A">>
T_Mid_Security == <<"M", "i", "d", " ", "S", "e", "c", "u", "r", "i", "t", "y">>
T_Principal_DBA == <<"P", "r", "i", "n", "c", "i", "p", "a", "l", " ", "D", "B", "A">>
T_Network_Director == <<"N", "e", "t", "w", "o", "r", "k", " ", "D", "i", "r", "e", "c", "t", "o", "r">>
T_Helpdesk_Head == <<"H", "e", "l", "p", "d", "e", "s", "k", " ", "H", "e", "a", "d">>
T_Solutions_Architect == <<"S", "o", "l", "u", "t", "i", "o", "n", "s", " ", "A", "r", "c", "h", "i", "t", "e", "c", "t">>
T_Product_Owner == <<"P", "r", "o", "d", "u", "c", "t", " ", "O", "w", "n", "e", "r">>
T_Scrum_Master == <<"S", "c", "r", "u", "m", " ", "M", "a", "s", "t", "e", "r">>
T_UI_UX == <<"U", "I", "/", "U", "X">>
T_Unity == <<"U", "n", "i", "t", "y">>
T_Embedded == <<"E", "m", "b", "e", "d", "d", "e", "d">>
T_Blockchain == <<"B", "l", "o", "c", "k", "c", "h", "a", "i", "n">>
T_ERP_VP == <<"E", "R", "P", " ", "V", "P">>
T_RPA == <<"R", "P", "A">>
T_DevRel == <<"D", "e", "v", "R", "e", "l">>
T_Pre_sales == <<"P", "r", "e", "-", "s", "a", "l", "e", "s">>
T_Technical_Writer == <<"T", "e", "c", "h", "n", "i", "c", "a", "l", " ", "W", "r", "i", "t", "e", "r">>
T_Lap_trinh_vien == <<"L", "a^.", "p", " ", "t", "r", "i!", "n", "h", " ", "v", "i", "e^", "n">>
T_Thuc_tap_sinh == <<"T", "h", "u+.", "c", " ", "t", "a^.", "p", " ", "s", "i", "n", "h">>
T_Senior == <<"S", "e", "n", "i", "o", "r">>
T_Lead == <<"L", "e", "a", "d">>
T_Manager == <<"M", "a", "n", "a", "g", "e", "r">>
T_CTO == <<"C", "T", "O">>
T_Specialist == <<"S", "p", "e", "c", "i", "a", "l", "i", "s", "t">>

TitleWords ==
    {T_Full_Stack, T_Node_js, T_React, T_Fresher_Android, T_Data_Engineer,
     T_Machine_Learning, T_Business_Analyst, T_MLOps, T_Platform, T_Junior_QA,
     T_Mid_Security, T_Principal_DBA, T_Network_Director, T_Helpdesk_Head,
     T_Solutions_Architect, T_Product_Owner, T_Scrum_Master, T_UI_UX, T_Unity,
     T_Embedded, T_Blockchain, T_ERP_VP, T_RPA, T_DevRel, T_Pre_sales,
     T_Technical_Writer, T_Lap_trinh_vien, T_Thuc_tap_sinh, T_Senior, T_Lead,
     T_Manager, T_CTO, T_Specialist}

NonStringTitles ==
    {[kind |-> "NoneType", repr |-> "None"], [kind |-> "float", repr |-> "nan"]}

TitleInputs ==
    NonStringTitles \cup {StrVal(t) : t \in Texts(TitleWords, {<<" ">>}, MaxTitleWords)}

InitTitle ==
    /\ arg \in TitleInputs
    /\ pc = "ready"
    /\ fn = ""
    /\ ret = Pending

CallTransformJobTitle ==
    /\ pc = "ready"
    /\ pc' = "done"
    /\ fn' = "transform_job_title"
    /\ ret' = TransformJobTitle(arg)
    /\ UNCHANGED arg

NextTitle == CallTransformJobTitle

SpecTitle == InitTitle /\ [][NextTitle]_vars


-----------------------------------------------------------------------------
(* ===== Job title: properties ===== *)

TitleCalled == fn = "transform_job_title" /\ pc = "done"

\* The positions in a table of patterns of the entries that have a pattern
\* matching a text with the bounded substrings subs
MatchingPositions(table, subs) ==
    {i \in 1..Len(table) : AnyPatternMatches(table[i].pats, subs)}

\* The positions in GROUP_RULES of the categories that have a pattern matching
\* the normalized title
MatchingCategories ==
    MatchingPositions(_COMPILED_RULES, BoundedSubstrings(_norm_job_text(arg)))

\* The positions in SENIORITY_PATTERNS of the levels that have a pattern
\* matching the normalized title
MatchingLevels ==
    MatchingPositions(_COMPILED_SENIORITY, BoundedSubstrings(_norm_job_text(arg)))

\* The name at the least of the positions m, the default when there is none
FirstOf(m, names, default) == IF m = {} THEN default ELSE names[Least(m)]

\* C7: GROUP_RULES starts with fullstack_engineer, backend_engineer,
\* frontend_engineer and ends with software_engineer_general; _job_group
\* returns the category of the least position in GROUP_RULES that has a
\* pattern matching the normalized title, whatever else matches, and
\* "other_it" when no category has one.
FirstCategoryWins ==
    /\ GROUP_RULES[1].grp = "fullstack_engineer"
    /\ GROUP_RULES[2].grp = "backend_engineer"
    /\ GROUP_RULES[3].grp = "frontend_engineer"
    /\ GROUP_RULES[Len(GROUP_RULES)].grp = "software_engineer_general"
    /\ TitleCalled =>
          ret.job_title_group =
              FirstOf(MatchingCategories,
                      [i \in 1..Len(GROUP_RULES) |-> GROUP_RULES[i].grp], "other_it")

\* "React Node.js": the frontend word comes first in the title, the backend
\* category comes first in GROUP_RULES
TitleSeveralCategoriesReached ==
    /\ TitleCalled
    /\ arg = StrVal(T_React \o <<" ">> \o T_Node_js)
    /\ {2, 3} \subseteq MatchingCategories
    /\ ret.job_title_group = "backend_engineer"

SENIORITY_ORDER ==
    <<"intern", "fresher", "junior", "mid", "senior", "lead", "principal",
      "manager", "director", "head", "vp", "cto">>

\* C8: the levels of SENIORITY_PATTERNS are, in order, intern, fresher,
\* junior, mid, senior, lead, principal, manager, director, head, vp, cto;
\* _job_seniority returns the level of the least position that has a pattern
\* matching the normalized title, wherever its word stands in the title, and
\* "unknown" when no level has one.
FirstLevelWins ==
    /\ [i \in 1..Len(SENIORITY_PATTERNS) |-> SENIORITY_PATTERNS[i].lvl] = SENIORITY_ORDER
    /\ TitleCalled =>
          ret.job_seniority = FirstOf(MatchingLevels, SENIORITY_ORDER, "unknown")

\* "Manager Junior QA": the manager word comes first in the title, the junior
\* level comes first in the order
TitleSeveralLevelsReached ==
    /\ TitleCalled
    /\ arg = StrVal(T_Manager \o <<" ">> \o T_Junior_QA)
    /\ {3, 8} \subseteq MatchingLevels
    /\ ret.job_seniority = "junior"

BIG_GROUPS ==
    {"software_engineering", "data", "infra_cloud", "qa_testing", "security",
     "it_ops_support", "product_project", "design", "other"}

\* C9: collapse_map has an entry for every category of GROUP_RULES and for
\* "other_it", each of its values is one of the nine coarse groups, and in a
\* transformed row job_title_group is a key of collapse_map and
\* job_title_group_big is the value collapse_map gives it.
CollapseMapTotal ==
    /\ \A i \in 1..Len(GROUP_RULES) : GROUP_RULES[i].grp \in DOMAIN collapse_map
    /\ "other_it" \in DOMAIN collapse_map
    /\ \A g \in DOMAIN collapse_map : collapse_map[g] \in BIG_GROUPS
    /\ TitleCalled =>
          /\ ret.job_title_group \in DOMAIN collapse_map
          /\ ret.job_title_group_big = collapse_map[ret.job_title_group]

TitleRpaCollapsedReached ==
    /\ TitleCalled
    /\ ret.job_title_group = "rpa_engineer"
    /\ ret.job_title_group_big = "software_engineering"


-----------------------------------------------------------------------------
(* ===== Address: split_address_all_pairs ===== *)

VIETNAM_PROVINCES ==
    << <<"A", "n", " ", "G", "i", "a", "n", "g">>,
       <<"B", "a!", " ", "R", "i.", "a", " ", "-", " ", "V", "u~", "n", "g", " ", "T", "a!", "u">>,
       <<"B", "a(/", "c", " ", "G", "i", "a", "n", "g">>,
       <<"B", "a(/", "c", " ", "K", "a.", "n">>,
       <<"B", "a.", "c", " ", "L", "i", "e^", "u">>,
       <<"B", "a(/", "c", " ", "N", "i", "n", "h">>,
       <<"B", "e^/", "n", " ", "T", "r", "e">>,
       <<"B", "i!", "n", "h", " ", "D-", "i.", "n", "h">>,
       <<"B", "i!", "n", "h", " ", "D", "u+", "o+", "n", "g">>,
       <<"B", "i!", "n", "h", " ", "P", "h", "u+", "o+/", "c">>,
       <<"B", "i!", "n", "h", " ", "T", "h", "u", "a^.", "n">>,
       <<"C", "a!", " ", "M", "a", "u">>,
       <<"C", "a^!", "n", " ", "T", "h", "o+">>,
       <<"C", "a", "o", " ", "B", "a(!", "n", "g">>,
       <<"D-", "a!", " ", "N", "a(~", "n", "g">>,
       <<"D-", "a(/", "k", " ", "L", "a(/", "k">>,
       <<"D-", "a(/", "k", " ", "N", "o^", "n", "g">>,
       <<"D-", "i", "e^.", "n", " ", "B", "i", "e^", "n">>,
       <<"D-", "o^!", "n", "g", " ", "N", "a", "i">>,
       <<"D-", "o^!", "n", "g", " ", "T", "h", "a/", "p">>,
       <<"G", "i", "a", " ", "L", "a", "i">>,
       <<"H", "a!", " ", "G", "i", "a", "n", "g">>,
       <<"H", "a!", " ", "N", "a", "m">>,
       <<"H", "a!", " ", "N", "o^.", "i">>,
       <<"H", "a!", " ", "T", "i~", "n", "h">>,
       <<"H", "a?", "i", " ", "D", "u+", "o+", "n", "g">>,
       <<"H", "a?", "i", " ", "P", "h", "o!", "n", "g">>,
       <<"H", "a^.", "u", " ", "G", "i", "a", "n", "g">>,
       <<"H", "o!", "a", " ", "B", "i!", "n", "h">>,
       <<"H", "u+", "n", "g", " ", "Y", "e^", "n">>,
       <<"K", "h", "a/", "n", "h", " ", "H", "o!", "a">>,
       <<"K", "i", "e^", "n", " ", "G", "i", "a", "n", "g">>,
       <<"K", "o", "n", " ", "T", "u", "m">>,
       <<"L", "a", "i", " ", "C", "h", "a^", "u">>,
       <<"L", "a^", "m", " ", "D-", "o^!", "n", "g">>,
       <<"L", "a.", "n", "g", " ", "S", "o+", "n">>,
       <<"L", "a!", "o", " ", "C", "a", "i">>,
       <<"L", "o", "n", "g", " ", "A", "n">>,
       <<"N", "a", "m", " ", "D-", "i.", "n", "h">>,
       <<"N", "g", "h", "e^.", " ", "A", "n">>,
       <<"N", "i", "n", "h", " ", "B", "i!", "n", "h">>,
       <<"N", "i", "n", "h", " ", "T", "h", "u", "a^.", "n">>,
       <<"P", "h", "u/", " ", "T", "h", "o.">>,
       <<"P", "h", "u/", " ", "Y", "e^", "n">>,
       <<"Q", "u", "a?", "n", "g", " ", "B", "i!", "n", "h">>,
       <<"Q", "u", "a?", "n", "g", " ", "N", "a", "m">>,
       <<"Q", "u", "a?", "n", "g", " ", "N", "g", "a~", "i">>,
       <<"Q", "u", "a?", "n", "g", " ", "N", "i", "n", "h">>,
       <<"Q", "u", "a?", "n", "g", " ", "T", "r", "i.">>,
       <<"S", "o/", "c", " ", "T", "r", "a(", "n", "g">>,
       <<"S", "o+", "n", " ", "L", "a">>,
       <<"T", "a^", "y", " ", "N", "i", "n", "h">>,
       <<"T", "h", "a/", "i", " ", "B", "i!", "n", "h">>,
       <<"T", "h", "a/", "i", " ", "N", "g", "u", "y", "e^", "n">>,
       <<"T", "h", "a", "n", "h", " ", "H", "o/", "a">>,
       <<"T", "h", "u+!", "a", " ", "T", "h", "i", "e^", "n", " ", "H", "u", "e^/">>,
       <<"T", "i", "e^!", "n", " ", "G", "i", "a", "n", "g">>,
       <<"T", "P", ".", " ", "H", "o^!", " ", "C", "h", "i/", " ", "M", "i", "n", "h">>,
       <<"T", "r", "a!", " ", "V", "i", "n", "h">>,
       <<"T", "u", "y", "e^", "n", " ", "Q", "u", "a", "n", "g">>,
       <<"V", "i~", "n", "h", " ", "L", "o", "n", "g">>,
       <<"V", "i~", "n", "h", " ", "P", "h", "u/", "c">>,
       <<"Y", "e^", "n", " ", "B", "a/", "i">> >>

\* The entries CANON.update adds: a variant and its canonical name
CANON_VARIANTS ==
    << << <<"h", "c", "m">>,
          <<"T", "P", ".", " ", "H", "o^!", " ", "C", "h", "i/", " ", "M", "i", "n", "h">> >>,
       << <<"t", "p", ".", "h", "c", "m">>,
          <<"T", "P", ".", " ", "H", "o^!", " ", "C", "h", "i/", " ", "M", "i", "n", "h">> >>,
       << <<"t", "p", "h", "c", "m">>,
          <<"T", "P", ".", " ", "H", "o^!", " ", "C", "h", "i/", " ", "M", "i", "n", "h">> >>,
       << <<"s", "a", "i", " ", "g", "o", "n">>,
          <<"T", "P", ".", " ", "H", "o^!", " ", "C", "h", "i/", " ", "M", "i", "n", "h">> >>,
       << <<"s", "a!", "i", " ", "g", "o!", "n">>,
          <<"T", "P", ".", " ", "H", "o^!", " ", "C", "h", "i/", " ", "M", "i", "n", "h">> >>,
       << <<"h", "o", " ", "c", "h", "i", " ", "m", "i", "n", "h">>,
          <<"T", "P", ".", " ", "H", "o^!", " ", "C", "h", "i/", " ", "M", "i", "n", "h">> >>,
       << <<"t", "h", "a", "n", "h", " ", "p", "h", "o", " ", "h", "o", " ", "c", "h", "i", " ", "m", "i", "n", "h">>,
          <<"T", "P", ".", " ", "H", "o^!", " ", "C", "h", "i/", " ", "M", "i", "n", "h">> >>,
       << <<"h", "n">>,
          <<"H", "a!", " ", "N", "o^.", "i">> >>,
       << <<"h", "a", " ", "n", "o", "i">>,
          <<"H", "a!", " ", "N", "o^.", "i">> >>,
       << <<"h", "a", "n", "o", "i">>,
          <<"H", "a!", " ", "N", "o^.", "i">> >>,
       << <<"t", "h", "a", "n", "h", " ", "p", "h", "o", " ", "h", "a", " ", "n", "o", "i">>,
          <<"H", "a!", " ", "N", "o^.", "i">> >>,
       << <<"d", "a", " ", "n", "a", "n", "g">>,
          <<"D-", "a!", " ", "N", "a(~", "n", "g">> >>,
       << <<"t", "h", "a", "n", "h", " ", "p", "h", "o", " ", "d", "a", " ", "n", "a", "n", "g">>,
          <<"D-", "a!", " ", "N", "a(~", "n", "g">> >>,
       << <<"h", "a", "i", " ", "p", "h", "o", "n", "g">>,
          <<"H", "a?", "i", " ", "P", "h", "o!", "n", "g">> >>,
       << <<"t", "h", "a", "n", "h", " ", "p", "h", "o", " ", "h", "a", "i", " ", "p", "h", "o", "n", "g">>,
          <<"H", "a?", "i", " ", "P", "h", "o!", "n", "g">> >>,
       << <<"c", "a", "n", " ", "t", "h", "o">>,
          <<"C", "a^!", "n", " ", "T", "h", "o+">> >>,
       << <<"t", "h", "a", "n", "h", " ", "p", "h", "o", " ", "c", "a", "n", " ", "t", "h", "o">>,
          <<"C", "a^!", "n", " ", "T", "h", "o+">> >> >>

\* CANON: the lowered name of every province, then the variants
CANON ==
    LET provinces == {VIETNAM_PROVINCES[i] : i \in 1..Len(VIETNAM_PROVINCES)}
        variants == {CANON_VARIANTS[i][1] : i \in 1..Len(CANON_VARIANTS)}
    IN [k \in {lower(prov) : prov \in provinces} \cup variants |->
           IF k \in variants
           THEN CANON_VARIANTS[CHOOSE i \in 1..Len(CANON_VARIANTS) :
                                  /\ CANON_VARIANTS[i][1] = k
                                  /\ \A j \in (i + 1)..Len(CANON_VARIANTS) :
                                        CANON_VARIANTS[j][1] # k][2]
           ELSE CHOOSE prov \in provinces :
                    /\ lower(prov) = k
                    /\ \A i, j \in 1..Len(VIETNAM_PROVINCES) :
                          (VIETNAM_PROVINCES[i] = prov /\ lower(VIETNAM_PROVINCES[j]) = k)
                              => j <= i]

CITY_LEXICON == DOMAIN CANON

_norm(s) == CollapseSpaces(lower(strip(s)))

\* The alternatives of (tp\.?|thanh pho|tinh ...), in the order the regular
\* expression tries them
ADMIN_PREFIXES ==
    << <<"t", "p", ".">>,
       <<"t", "p">>,
       <<"t", "h", "a!", "n", "h", " ", "p", "h", "o^/">>,
       <<"t", "h", "a", "n", "h", " ", "p", "h", "o">>,
       <<"t", "i?", "n", "h">>,
       <<"t", "i", "n", "h">> >>

\* The alternatives that match at the start of s, whatever the case of its
\* letters (low is s lowered), with whitespace after them
AdminPrefixesAt(s, low) ==
    {k \in 1..Len(ADMIN_PREFIXES) :
        /\ HasAt(low, 1, ADMIN_PREFIXES[k])
        /\ Len(s) > Len(ADMIN_PREFIXES[k])
        /\ IsSpace(s[Len(ADMIN_PREFIXES[k]) + 1])}

\* s without the first of the alternatives hits and the whitespace after it
DropAdminPrefix(s, hits) ==
    IF hits = {} THEN s
    ELSE SubSeq(s, RunEnd(s, Len(ADMIN_PREFIXES[Least(hits)]) + 1, SpaceChars), Len(s))

\* re.sub(r"^\s*(...)\s+", "", s, flags=re.I) for a stripped s
SubAdminPrefix(s) == DropAdminPrefix(s, AdminPrefixesAt(s, lower(s)))

_strip_admin_prefix(raw) == SubAdminPrefix(strip(raw))

_base_name(raw) == _norm(_strip_admin_prefix(raw))

\* _canon_city with its locals key, key2 and no_prefix
CanonCity(raw, key, key2, no_prefix) ==
    IF key \in DOMAIN CANON THEN CANON[key]
    ELSE IF key2 \in DOMAIN CANON THEN CANON[key2]
    ELSE IF no_prefix # <<>> THEN no_prefix
    ELSE strip(raw)

_canon_city(raw) ==
    IF raw = <<>> THEN NoneVal
    ELSE CanonCity(raw, _norm(raw), _base_name(raw), _strip_admin_prefix(raw))

_canon_district(raw) == IF raw = <<>> THEN NoneVal ELSE _strip_admin_prefix(raw)

\* _is_city with its local t
IsCity(t) ==
    \/ t \in CITY_LEXICON
    \/ HasAt(t, 1, <<"t", "p", " ">>)
    \/ HasAt(t, 1, <<"t", "p", ".">>)

_is_city(token) == IsCity(_norm(token))

DISTRICT_NUMBERED == {<<"q", "u", "a^.", "n">>, <<"q", ".">>}
DISTRICT_WORD == <<"d", "i", "s", "t", "r", "i", "c", "t">>
DISTRICT_UNITS ==
    {<<"h", "u", "y", "e^.", "n">>, <<"t", "h", "i.", " ", "x", "a~">>,
     <<"p", "h", "u+", "o+!", "n", "g">>, <<"x", "a~">>}

\* A word of ws stands somewhere in t with a \b on both sides
HasBoundedWord(t, ws) ==
    \E w \in ws : \E i \in 1..Len(t) :
        HasAt(t, i, w) /\ Boundary(t, i - 1) /\ Boundary(t, i + Len(w) - 1)

\* _is_district with its local t
IsDistrict(t) ==
    \/ \E w \in DISTRICT_NUMBERED : \E i \in 1..Len(t) :
          /\ HasAt(t, i, w)
          /\ RunEnd(t, i + Len(w), SpaceChars) <= Len(t)
          /\ IsDigit(t[RunEnd(t, i + Len(w), SpaceChars)])
    \/ HasBoundedWord(t, {DISTRICT_WORD})
    \/ HasBoundedWord(t, DISTRICT_UNITS)

_is_district(token) == IsDistrict(_norm(token))

ADDRESS_SEPARATORS == {":", ",", ";", "/", "-", "|"}

\* re.split on a class of single characters, str.split on one character: the
\* pieces between the separators, empty ones included
RECURSIVE SplitFrom(_, _, _, _)
SplitFrom(s, i, start, seps) ==
    IF i > Len(s) THEN <<SubSeq(s, start, Len(s))>>
    ELSE IF s[i] \in seps THEN <<SubSeq(s, start, i - 1)>> \o SplitFrom(s, i + 1, i + 1, seps)
    ELSE SplitFrom(s, i + 1, start, seps)

SplitOn(s, seps) == SplitFrom(s, 1, 1, seps)

\* [t.strip() for t in pieces if t.strip()]
StrippedNonEmpty(pieces) ==
    SelectSeq([i \in 1..Len(pieces) |-> strip(pieces[i])], LAMBDA tok : tok # <<>>)

\* The comma-only retry for a single token
RetryOnComma(addr, tokens) ==
    IF Len(tokens) = 1 THEN StrippedNonEmpty(SplitOn(addr, {","})) ELSE tokens

\* The tokens of an address
AddressTokens(addr) == RetryOnComma(addr, StrippedNonEmpty(SplitOn(addr, ADDRESS_SEPARATORS)))

\* range(start, stop, step) for a positive step
Range(start, stop, step) ==
    [k \in 1..(IF stop <= start THEN 0 ELSE (stop - start + step - 1) \div step) |->
        start + (k - 1) * step]

\* Mutant of the orientation: the pair keeps the order of the text whatever
\* the tokens look like.
OrientedKeepOrder(a, b, a_city, b_city, a_dist, b_dist) ==
    <<_canon_city(a), _canon_district(b)>>

\* The pair of the tokens a and b, given what each of them looks like
Oriented(a, b, a_city, b_city, a_dist, b_dist) ==
    LET pair(city, district) == <<_canon_city(city), _canon_district(district)>>
    IN IF a_city /\ b_dist THEN pair(a, b)
       ELSE IF a_dist /\ b_city THEN pair(b, a)
       ELSE IF a_city /\ b_city
            THEN (IF \/ _base_name(a) = _base_name(b)
                     \/ Contains(_base_name(b), _base_name(a))
                     \/ Contains(_base_name(a), _base_name(b))
                  THEN pair(a, b)
                  ELSE pair(a, b))
       ELSE pair(a, b)

\* One turn of the loop: the pair made of the tokens a and b
AddressPair(a, b) == Oriented(a, b, _is_city(a), _is_city(b), _is_district(a), _is_district(b))

\* The loop over the indices starts: a pair of every tokens[i], tokens[i+1]
PairsAt(tokens, starts) ==
    [k \in 1..Len(starts) |-> AddressPair(tokens[starts[k] + 1], tokens[starts[k] + 2])]

\* The loop for i in range(0, len(tokens) - 1, step)
PairsOfTokens(tokens, step) == PairsAt(tokens, Range(0, Len(tokens) - 1, step))

\* Mutant of split_address_all_pairs: the loop advances by one token, so a
\* token can close one pair and open the next.
split_address_all_pairsByOne(addr) ==
    IF ~IsStr(addr) \/ strip(addr.s) = <<>> THEN <<>>
    ELSE PairsOfTokens(AddressTokens(addr.s), 1)

split_address_all_pairs(addr) ==
    IF ~IsStr(addr) \/ strip(addr.s) = <<>> THEN <<>>
    ELSE PairsOfTokens(AddressTokens(addr.s), 2)

MaxAddressWords == 3
MaxAddressCalls == 2

A_Ha_Noi == <<"H", "a!", " ", "N", "o^.", "i">>
A_Cau_Giay == <<"C", "a^!", "u", " ", "G", "i", "a^/", "y">>
A_HCM_Quan_10 == <<"H", "o^!", " ", "C", "h", "i/", " ", "M", "i", "n", "h", ":", " ", "Q", "u", "a^.", "n", " ", "1", "0">>
A_Quan_1_HCM == <<"Q", "u", "a^.", "n", " ", "1", "/", "H", "C", "M">>
A_TP_Hai_Duong == <<"T", "P", " ", "H", "a?", "i", " ", "D", "u+", "o+", "n", "g">>
A_Hai_Duong == <<"H", "a?", "i", " ", "D", "u+", "o+", "n", "g">>
A_Khanh_Hoa == <<"K", "h", "a", "n", "h", " ", "H", "o", "a">>
A_dash == <<"-">>
A_blank == <<" ">>

AddressWords ==
    {A_Ha_Noi, A_Cau_Giay, A_HCM_Quan_10, A_Quan_1_HCM, A_TP_Hai_Duong,
     A_Hai_Duong, A_Khanh_Hoa, A_dash, A_blank}

AddressSeparators == {<<",", " ">>, <<";">>, <<"-">>}

AddressInputs ==
    NonStrings \cup {StrVal(t) : t \in Texts(AddressWords, AddressSeparators, MaxAddressWords)}

\* ret is the list of what the calls made so far have returned
InitAddress ==
    /\ arg \in AddressInputs
    /\ pc = "ready"
    /\ fn = ""
    /\ ret = <<>>

CallSplitAddressAllPairs ==
    /\ Len(ret) < MaxAddressCalls
    /\ pc' = "done"
    /\ fn' = "split_address_all_pairs"
    /\ ret' = Append(ret, split_address_all_pairs(arg))
    /\ UNCHANGED arg

NextAddress == CallSplitAddressAllPairs

SpecAddress == InitAddress /\ [][NextAddress]_vars

\* Addresses of two tokens: one pair each
P_Ha_Noi == <<"H", "a!", " ", "N", "o^.", "i">>
P_HA_NOI_upper == <<"H", "A!", " ", "N", "O^.", "I">>
P_Ha_Noi_plain == <<"H", "a", " ", "N", "o", "i">>
P_Khanh_Hoa_plain == <<"K", "h", "a", "n", "h", " ", "H", "o", "a">>
P_Tinh_Khanh_Hoa == <<"T", "i?", "n", "h", " ", "K", "h", "a/", "n", "h", " ", "H", "o!", "a">>
P_Thanh_pho_Da_Nang == <<"T", "h", "a!", "n", "h", " ", "p", "h", "o^/", " ", "D-", "a!", " ", "N", "a(~", "n", "g">>
P_TP_Ho_Chi_Minh == <<"T", "P", ".", " ", "H", "o^!", " ", "C", "h", "i/", " ", "M", "i", "n", "h">>
P_Ho_Chi_Minh == <<"H", "o^!", " ", "C", "h", "i/", " ", "M", "i", "n", "h">>
P_TP_Hai_Duong == <<"T", "P", " ", "H", "a?", "i", " ", "D", "u+", "o+", "n", "g">>
P_Hai_Duong == <<"H", "a?", "i", " ", "D", "u+", "o+", "n", "g">>
P_Quan_10 == <<"Q", "u", "a^.", "n", " ", "1", "0">>
P_Q_1 == <<"Q", ".", "1">>
P_Huyen_An_Lao == <<"H", "u", "y", "e^.", "n", " ", "A", "n", " ", "L", "a~", "o">>
P_TP_Hai_Duong_Quan_1 == <<"T", "P", " ", "H", "a?", "i", " ", "D", "u+", "o+", "n", "g", " ", "Q", "u", "a^.", "n", " ", "1">>
P_Cau_Giay == <<"C", "a^!", "u", " ", "G", "i", "a^/", "y">>
P_District_7 == <<"D", "i", "s", "t", "r", "i", "c", "t", " ", "7">>

PairTokens ==
    {P_Ha_Noi, P_HA_NOI_upper, P_Ha_Noi_plain, P_Khanh_Hoa_plain,
     P_Tinh_Khanh_Hoa, P_Thanh_pho_Da_Nang, P_TP_Ho_Chi_Minh, P_Ho_Chi_Minh,
     P_TP_Hai_Duong, P_Hai_Duong, P_Quan_10, P_Q_1, P_Huyen_An_Lao,
     P_TP_Hai_Duong_Quan_1, P_Cau_Giay, P_District_7}

PairSeparators == {<<",", " ">>, <<":", " ">>}

AddressPairInputs ==
    {StrVal(a \o sep \o b) : a \in PairTokens, b \in PairTokens, sep \in PairSeparators}

InitAddressPair ==
    /\ arg \in AddressPairInputs
    /\ pc = "ready"
    /\ fn = ""
    /\ ret = <<>>

SpecAddressPair == InitAddressPair /\ [][NextAddress]_vars

\* "if c" for the city or the district of a pair: a string (the tokens of a
\* pair are not empty, so neither is None), kept unless it is empty
Truthy(x) == x # <<>>

\* pairs[:max_pairs] for a max_pairs that is not negative
FirstPairs(pairs, max_pairs) == SubSeq(pairs, 1, IF max_pairs < Len(pairs) THEN max_pairs ELSE Len(pairs))

\* list(OrderedDict.fromkeys(values))
RECURSIVE FromKeys(_, _)
FromKeys(values, seen) ==
    IF values = <<>> THEN <<>>
    ELSE IF Head(values) \in seen THEN FromKeys(Tail(values), seen)
    ELSE <<Head(values)>> \o FromKeys(Tail(values), seen \cup {Head(values)})

COMMA_SPACE == <<",", " ">>

\* ", ".join(values) if values else None
JoinOrNone(values) == IF values = <<>> THEN NoneVal ELSE StrVal(Join(values, COMMA_SPACE))

\* split_address_joined from its local shown on
JoinShown(shown, dedupe) ==
    LET cities == SelectSeq([i \in 1..Len(shown) |-> shown[i][1]], Truthy)
        dists == SelectSeq([i \in 1..Len(shown) |-> shown[i][2]], Truthy)
    IN <<JoinOrNone(IF dedupe THEN FromKeys(cities, {}) ELSE cities),
         JoinOrNone(IF dedupe THEN FromKeys(dists, {}) ELSE dists)>>

\* split_address_joined from its local pairs on
JoinPairs(pairs, max_pairs, dedupe) ==
    IF pairs = <<>> THEN <<NoneVal, NoneVal>>
    ELSE JoinShown(IF max_pairs = NoneVal THEN pairs ELSE FirstPairs(pairs, max_pairs), dedupe)

\* Mutant of split_address_joined: dedupe is ignored, every value is kept.
split_address_joinedKeepAll(addr, max_pairs, dedupe) ==
    JoinPairs(split_address_all_pairs(addr), max_pairs, FALSE)

split_address_joined(addr, max_pairs, dedupe) ==
    JoinPairs(split_address_all_pairs(addr), max_pairs, dedupe)

VA == <<" ", "v", "a!", " ">>

\* ", ".join([x for x in pair if x])
FormatPair(pair) == Join(SelectSeq(pair, Truthy), COMMA_SPACE)

\* format_pairs from its local pairs on
FormatAll(pairs) ==
    IF pairs = <<>> THEN NoneVal
    ELSE StrVal(Join([i \in 1..Len(pairs) |-> FormatPair(pairs[i])], VA))

\* Mutant of format_pairs: a pair that occurs twice is rendered once.
format_pairsOnce(addr) == FormatAll(FromKeys(split_address_all_pairs(addr), {}))

format_pairs(addr) == FormatAll(split_address_all_pairs(addr))

\* The address columns transform() adds to a row, one call each
InitAddressColumns ==
    /\ arg \in AddressInputs
    /\ pc = "ready"
    /\ fn = ""
    /\ ret = Pending

CallSplitAddressJoined ==
    /\ pc = "ready"
    /\ pc' = "done"
    /\ fn' = "split_address_joined"
    /\ ret' = split_address_joined(arg, NoneVal, TRUE)
    /\ UNCHANGED arg

CallFormatPairs ==
    /\ pc = "ready"
    /\ pc' = "done"
    /\ fn' = "format_pairs"
    /\ ret' = format_pairs(arg)
    /\ UNCHANGED arg

NextAddressColumns == CallSplitAddressJoined \/ CallFormatPairs

SpecAddressColumns == InitAddressColumns /\ [][NextAddressColumns]_vars

-----------------------------------------------------------------------------
(* ===== Address: properties ===== *)

AddressCalled == fn = "split_address_all_pairs" /\ pc = "done"

\* The pair of a city token and a district token, each made canonical
PairOf(city, district) == <<_canon_city(city), _canon_district(district)>>

\* The list pairs consumes tokens two by two: it has Len(tokens) \div 2 pairs
\* and its i-th pair is made of the tokens 2i-1 and 2i, counted from one, as
\* city and district one way round or the other
ConsumesPairwise(pairs, tokens) ==
    /\ Len(pairs) = Len(tokens) \div 2
    /\ \A i \in 1..Len(pairs) :
          pairs[i] \in {PairOf(tokens[2 * i - 1], tokens[2 * i]),
                        PairOf(tokens[2 * i], tokens[2 * i - 1])}

\* C10: split_address_all_pairs returns the empty list for an input that is
\* not a string or is blank; otherwise, with n the number of tokens, it
\* returns n \div 2 pairs, the i-th of them made of the tokens 2i-1 and 2i
\* (counted from one), so a last token without a partner is in no pair; and
\* every later call on the same text returns the same list as the first.
PairwiseConsumption ==
    AddressCalled =>
        /\ \A c \in 1..Len(ret) : ret[c] = ret[1]
        /\ IF IsBlank(arg) THEN ret[1] = <<>>
           ELSE ConsumesPairwise(ret[1], AddressTokens(arg.s))

\* Five tokens, split twice: two pairs each time, the fifth token dropped
AddressOddTokensReached ==
    /\ AddressCalled
    /\ IsStr(arg)
    /\ Len(AddressTokens(arg.s)) = 5
    /\ Len(ret) = 2
    /\ Len(ret[2]) = 2

\* The pairs split_address_all_pairs returned, each with the two tokens it is
\* made of: the records [pair, a, b] with a the token that came first
ReturnedPairs ==
    {[pair |-> ret[1][i],
      a |-> AddressTokens(arg.s)[2 * i - 1],
      b |-> AddressTokens(arg.s)[2 * i]] : i \in 1..Len(ret[1])}

\* C11: in a pair where only one token looks like a city and the other token
\* looks like a district, the city is the city-like token and the district is
\* the district-like token, whichever of them came first.
CityDistrictOrientation ==
    AddressCalled =>
        \A p \in ReturnedPairs :
            /\ (_is_city(p.a) /\ ~_is_city(p.b) /\ _is_district(p.b))
                  => p.pair = PairOf(p.a, p.b)
            /\ (_is_city(p.b) /\ ~_is_city(p.a) /\ _is_district(p.a))
                  => p.pair = PairOf(p.b, p.a)

\* "Quan 10, Ha Noi" with their accents: the district came first, the city is
\* Ha Noi
AddressDistrictFirstReached ==
    /\ AddressCalled
    /\ \E sep \in PairSeparators : arg = StrVal(P_Quan_10 \o sep \o P_Ha_Noi)
    /\ ret[1] = << <<P_Ha_Noi, P_Quan_10>> >>


\* C12: in a pair whose two tokens both look like a city, the first token is
\* the city and the second is the district.
BothCitiesKeepOrder ==
    AddressCalled =>
        \A p \in ReturnedPairs :
            (_is_city(p.a) /\ _is_city(p.b)) => p.pair = PairOf(p.a, p.b)


\* A name without its accents and in lower case: what every accent or case
\* variant of the name has in common
Unaccented(s) ==
    _norm([i \in 1..Len(s) |->
             IF s[i] \in {"d-", "D-"} THEN "d"
             ELSE IF HasMarks(s[i]) THEN SubSeq(s[i], 1, 1)
             ELSE s[i]])

\* The province names a token is a variant of, with or without its prefix
ProvincesOf(token) ==
    {CANON[k] : k \in {key \in DOMAIN CANON :
                          Unaccented(key) \in {Unaccented(token),
                                               Unaccented(_strip_admin_prefix(token))}}}

\* The city a token stands for: the canonical name of its province, or the
\* token without its administrative prefix when it is no variant of any
CanonicalCities(token) ==
    IF ProvincesOf(token) # {} THEN ProvincesOf(token) ELSE {_strip_admin_prefix(token)}

\* C13: the city of every pair is the canonical name of the province its
\* token is an accent or case variant of, with or without an administrative
\* prefix, and the token without its prefix when it is a variant of none.
CityCanonicalized ==
    AddressCalled =>
        \A p \in ReturnedPairs :
            \/ p.pair[2] = _canon_district(p.b) /\ p.pair[1] \in CanonicalCities(p.a)
            \/ p.pair[2] = _canon_district(p.a) /\ p.pair[1] \in CanonicalCities(p.b)


JoinedCalled == fn = "split_address_joined" /\ pc = "done"

\* The k-th least of a set of positions
NthOf(I, k) == CHOOSE i \in I : Cardinality({j \in I : j < i}) = k - 1

\* The values at their first occurrence only, in the order of the list
FirstSeen(values) ==
    LET first == {i \in 1..Len(values) : \A j \in 1..(i - 1) : values[j] # values[i]}
    IN [k \in 1..Cardinality(first) |-> values[NthOf(first, k)]]

\* The result of split_address_joined is as stated for the list pairs
JoinedAsStated(result, pairs) ==
    IF pairs = <<>> THEN result = <<NoneVal, NoneVal>>
    ELSE /\ result # <<NoneVal, NoneVal>>
         /\ result[1] =
               StrVal(Join(FirstSeen([i \in 1..Len(pairs) |-> pairs[i][1]]), COMMA_SPACE))
         /\ result[2] =
               StrVal(Join(FirstSeen([i \in 1..Len(pairs) |-> pairs[i][2]]), COMMA_SPACE))

\* C14: split_address_joined returns (None, None) exactly when
\* split_address_all_pairs returns no pair; otherwise it returns the cities
\* and the districts of all the pairs, each value once, in the order of
\* their first occurrence, joined by ", ".
JoinedFirstSeen == JoinedCalled => JoinedAsStated(ret, split_address_all_pairs(arg))

\* The cities of three pairs are c1, c2, c1: the result names c1 then c2
ThreePairsTwoCities(result, pairs) ==
    /\ Len(pairs) = 3
    /\ pairs[1][1] = pairs[3][1]
    /\ pairs[1][1] # pairs[2][1]
    /\ result[1] = StrVal(pairs[1][1] \o COMMA_SPACE \o pairs[2][1])

AddressRepeatedCityReached ==
    JoinedCalled /\ ThreePairsTwoCities(ret, split_address_all_pairs(arg))

FormatCalled == fn = "format_pairs" /\ pc = "done"

\* The result of format_pairs is as stated for the list pairs
FormatAsStated(result, pairs) ==
    IF pairs = <<>> THEN result = NoneVal
    ELSE /\ result # NoneVal
         /\ result =
               StrVal(Join([i \in 1..Len(pairs) |-> pairs[i][1] \o COMMA_SPACE \o pairs[i][2]], VA))

\* C15: format_pairs returns None exactly when split_address_all_pairs
\* returns no pair; otherwise it returns "city, district" for every pair, in
\* the order of the pairs, each pair once per occurrence, with " va " (the
\* Vietnamese word, with its accent) between consecutive pairs.
FormatEveryPair == FormatCalled => FormatAsStated(ret, split_address_all_pairs(arg))

\* The same pair twice: it is rendered twice
SamePairTwice(result, pairs) ==
    /\ Len(pairs) = 2
    /\ pairs[1] = pairs[2]
    /\ result = StrVal(pairs[1][1] \o COMMA_SPACE \o pairs[1][2] \o VA
                           \o pairs[2][1] \o COMMA_SPACE \o pairs[2][2])

AddressSamePairTwiceReached ==
    FormatCalled /\ SamePairTwice(ret, split_address_all_pairs(arg))

-----------------------------------------------------------------------------
(* ===== transform: schema check, enrichment, quarantine ===== *)

(* A frame is a record [columns, rows]: the set of its column names and the  *)
(* list of its rows.  A row is a record [id_hash, val, fault]: its key, its   *)
(* other values, and the function that raises an unexpected exception on it  *)
(* ("none" for a row every function handles).                                *)

REQUIRED_COLUMNS == <<"job_title", "address", "salary">>

SchemaError == [exc |-> "ValueError", msg |-> "Missing required columns"]
UnpackError == [exc |-> "ValueError", msg |-> "not enough values to unpack"]
RowError(f) == [exc |-> "Exception", msg |-> f]

\* _validate_schema: the exception it raises, None when it returns
_validate_schema(strict, df) ==
    IF ~strict THEN NoneVal
    ELSE IF SelectSeq(REQUIRED_COLUMNS, LAMBDA c : c \notin df.columns) # <<>> THEN SchemaError
    ELSE NoneVal

\* The statements of the try block, in order: the function applied to the
\* rows, the column it reads, the columns it adds, and whether its results
\* are unpacked with zip(*...), which fails on a frame without rows
TRANSFORM_STEPS ==
    << [fn |-> "parse_salary", col |-> "salary", unpack |-> TRUE,
        adds |-> {"min_salary", "max_salary", "salary_unit", "salary_note"}],
       [fn |-> "split_address_joined", col |-> "address", unpack |-> TRUE,
        adds |-> {"city", "district"}],
       [fn |-> "format_pairs", col |-> "address", unpack |-> FALSE,
        adds |-> {"city_district_pairs_str"}],
       [fn |-> "_job_group", col |-> "job_title", unpack |-> FALSE,
        adds |-> {"job_title_group"}],
       [fn |-> "_job_seniority", col |-> "job_title", unpack |-> FALSE,
        adds |-> {"job_seniority"}],
       [fn |-> "collapse_map", col |-> "job_title", unpack |-> FALSE,
        adds |-> {"job_title_group_big"}] >>

\* The exception a statement raises on the frame out, None when it does not
StepError(step, out) ==
    IF \E i \in 1..Len(out.rows) : out.rows[i].fault = step.fn THEN RowError(step.fn)
    ELSE IF step.unpack /\ out.rows = <<>> THEN UnpackError
    ELSE NoneVal

\* The try block from its k-th statement on: the exception raised, the frame
\* out as it then is, and the functions applied so far
RECURSIVE RunSteps(_, _, _)
RunSteps(k, out, applied) ==
    IF k > Len(TRANSFORM_STEPS) THEN [raised |-> NoneVal, out |-> out, applied |-> applied]
    ELSE IF TRANSFORM_STEPS[k].col \notin out.columns THEN RunSteps(k + 1, out, applied)
    ELSE IF StepError(TRANSFORM_STEPS[k], out) # NoneVal
         THEN [raised |-> StepError(TRANSFORM_STEPS[k], out), out |-> out,
               applied |-> Append(applied, TRANSFORM_STEPS[k].fn)]
    ELSE RunSteps(k + 1,
                  [out EXCEPT !.columns = @ \cup TRANSFORM_STEPS[k].adds],
                  Append(applied, TRANSFORM_STEPS[k].fn))

\* Mutant of ReturnOrQuarantine: the exception is swallowed and out returned
\* as it is.
ReturnPartial(r) ==
    [raised |-> NoneVal, returned |-> r.out, quarantined |-> NoneVal, applied |-> r.applied]

\* The end of transform: return out, or quarantine out and raise again
ReturnOrQuarantine(r) ==
    IF r.raised = NoneVal
    THEN [raised |-> NoneVal, returned |-> r.out, quarantined |-> NoneVal, applied |-> r.applied]
    ELSE [raised |-> r.raised, returned |-> NoneVal, quarantined |-> r.out, applied |-> r.applied]

\* Mutant of transform: the schema is checked after the enrichment.
transformCheckLast(strict, df) ==
    IF RunSteps(1, df, <<>>).raised = NoneVal /\ _validate_schema(strict, df) # NoneVal
    THEN [raised |-> SchemaError, returned |-> NoneVal, quarantined |-> NoneVal,
          applied |-> RunSteps(1, df, <<>>).applied]
    ELSE ReturnOrQuarantine(RunSteps(1, df, <<>>))

\* transform(df): what it raised, what it returned, what it wrote to the
\* quarantine directory, and the functions it applied to the rows
transform(strict, df) ==
    IF _validate_schema(strict, df) # NoneVal
    THEN [raised |-> _validate_schema(strict, df), returned |-> NoneVal,
          quarantined |-> NoneVal, applied |-> <<>>]
    ELSE ReturnOrQuarantine(RunSteps(1, df, <<>>))

MaxRows == 2

INPUT_COLUMNS == {"job_title", "address", "salary", "company"}
ROW_FAULTS == {"none", "parse_salary", "format_pairs", "_job_seniority"}

\* The frames of at most n rows over the input columns
Frames(n) ==
    {[columns |-> cols,
      rows |-> [i \in 1..Len(faults) |-> [id_hash |-> i, val |-> i, fault |-> faults[i]]]] :
        cols \in SUBSET INPUT_COLUMNS, faults \in WordLists(ROW_FAULTS, n)}

InitTransform ==
    /\ arg \in [strict : BOOLEAN, df : Frames(MaxRows)]
    /\ pc = "ready"
    /\ fn = ""
    /\ ret = Pending

CallTransform ==
    /\ pc = "ready"
    /\ pc' = "done"
    /\ fn' = "transform"
    /\ ret' = transform(arg.strict, arg.df)
    /\ UNCHANGED arg

NextTransform == CallTransform

SpecTransform == InitTransform /\ [][NextTransform]_vars


-----------------------------------------------------------------------------
(* ===== transform: properties ===== *)

TransformCalled == fn = "transform" /\ pc = "done"

LacksRequired(df) == \E i \in 1..Len(REQUIRED_COLUMNS) : REQUIRED_COLUMNS[i] \notin df.columns

\* The functions transform applies when nothing fails: those of the
\* statements whose input column the frame has
ApplicableTo(df) ==
    {TRANSFORM_STEPS[k].fn : k \in {j \in 1..Len(TRANSFORM_STEPS) :
                                       TRANSFORM_STEPS[j].col \in df.columns}}

DERIVED_COLUMNS == UNION {TRANSFORM_STEPS[k].adds : k \in 1..Len(TRANSFORM_STEPS)}

Applied(outcome) == {outcome.applied[k] : k \in 1..Len(outcome.applied)}

\* C16: with strict-schema mode on, for a frame that lacks a required
\* column, transform raises the schema error, has applied no function to any
\* row, has added no derived column anywhere and returns no frame; with
\* strict-schema mode off it never raises the schema error and applies only
\* functions whose input column the frame has, all of them when none raises.
SchemaCheckedFirst ==
    TransformCalled =>
        /\ (arg.strict /\ LacksRequired(arg.df)) =>
              /\ ret.raised = SchemaError
              /\ ret.applied = <<>>
              /\ ret.returned = NoneVal
              /\ ret.quarantined = NoneVal
        /\ ~arg.strict =>
              /\ ret.raised # SchemaError
              /\ Applied(ret) \subseteq ApplicableTo(arg.df)
              /\ ret.raised = NoneVal =>
                    /\ Applied(ret) = ApplicableTo(arg.df)
                    /\ ret.returned.columns \cap DERIVED_COLUMNS =
                          UNION {TRANSFORM_STEPS[k].adds :
                                    k \in {j \in 1..Len(TRANSFORM_STEPS) :
                                              TRANSFORM_STEPS[j].col \in arg.df.columns}}

\* strict mode, a frame with a salary column but no address column, and a
\* row on which parse_salary would raise: the schema error comes first
TransformSchemaErrorReached ==
    /\ TransformCalled
    /\ arg.strict
    /\ "salary" \in arg.df.columns
    /\ "address" \notin arg.df.columns
    /\ \E i \in 1..Len(arg.df.rows) : arg.df.rows[i].fault = "parse_salary"
    /\ ret.raised = SchemaError

-----------------------------------------------------------------------------
(* ===== load: prepare, upsert ===== *)

(* The jobs table is a function from the id_hash of its rows (its primary    *)
(* key) to their other values.                                               *)

EmptyTable == [h \in {} |-> 0]

IntegrityError == [exc |-> "IntegrityError", msg |-> "duplicate key"]
CardinalityViolation ==
    [exc |-> "CardinalityViolation",
     msg |-> "ON CONFLICT DO UPDATE command cannot affect row a second time"]

\* df.drop_duplicates(subset=["id_hash"], keep="last"), as a list of rows
DropDuplicatesKeepLast(rows) ==
    SelectSeq([i \in 1..Len(rows) |->
                  [id_hash |-> rows[i].id_hash, val |-> rows[i].val,
                   kept |-> \A j \in (i + 1)..Len(rows) : rows[j].id_hash # rows[i].id_hash]],
              LAMBDA r : r.kept)

\* One row inserted, or updated when its key is in the table
InsertOrUpdate(table, row) ==
    [h \in DOMAIN table \cup {row.id_hash} |-> IF h = row.id_hash THEN row.val ELSE table[h]]

\* The rows inserted or updated one after the other
RECURSIVE InsertOrUpdateAll(_, _)
InsertOrUpdateAll(table, rows) ==
    IF rows = <<>> THEN table
    ELSE InsertOrUpdateAll(InsertOrUpdate(table, Head(rows)), Tail(rows))

HasDuplicateKeys(rows) ==
    \E i, j \in 1..Len(rows) : i # j /\ rows[i].id_hash = rows[j].id_hash

\* INSERT ... ON CONFLICT (id_hash) DO UPDATE of several rows in one
\* statement: it fails when two of the rows have the same key
ExecuteOnConflict(table, rows) ==
    IF HasDuplicateKeys(rows) THEN [raised |-> CardinalityViolation, jobs |-> table]
    ELSE [raised |-> NoneVal, jobs |-> InsertOrUpdateAll(table, rows)]

\* postgresql: the statement for all the rows, and when it fails that way the
\* statement for each row in turn
UpsertPostgresql(table, rows) ==
    IF ExecuteOnConflict(table, rows).raised = CardinalityViolation
    THEN [raised |-> NoneVal, jobs |-> InsertOrUpdateAll(table, rows)]
    ELSE ExecuteOnConflict(table, rows)

\* mysql, mariadb: INSERT ... ON DUPLICATE KEY UPDATE
UpsertMysql(table, rows) ==
    [raised |-> NoneVal, jobs |-> InsertOrUpdateAll(table, rows)]

\* Any other dialect: df.to_sql(if_exists="append"), plain INSERTs in the
\* transaction of engine.begin(); a key already in the table violates the
\* primary key and the transaction is rolled back
UpsertAppend(table, rows) ==
    IF HasDuplicateKeys(rows) \/ \E i \in 1..Len(rows) : rows[i].id_hash \in DOMAIN table
    THEN [raised |-> IntegrityError, jobs |-> table]
    ELSE [raised |-> NoneVal, jobs |-> InsertOrUpdateAll(table, rows)]

\* upsert from its local rows on
UpsertRows(dialect, table, rows) ==
    IF dialect = "postgresql" THEN UpsertPostgresql(table, rows)
    ELSE IF dialect \in {"mysql", "mariadb"} THEN UpsertMysql(table, rows)
    ELSE UpsertAppend(table, rows)

\* upsert(engine, df) on the table: the exception raised and the table after
upsert(dialect, table, df) ==
    IF df.rows = <<>> THEN [raised |-> NoneVal, jobs |-> table]
    ELSE UpsertRows(dialect, table, DropDuplicatesKeepLast(df.rows))

MaxUpserts == 2

DIALECTS == {"postgresql", "mysql", "mariadb", "sqlite"}
ROW_KEYS == {1, 2}
ROW_VALUES == {1, 2}

ENRICHED_COLUMNS ==
    {"job_title", "address", "salary", "min_salary", "max_salary", "salary_unit",
     "salary_note", "city", "district", "city_district_pairs_str", "job_title_group",
     "job_seniority", "job_title_group_big"}

\* The enriched batches of at most n rows
Batches(n) ==
    {[columns |-> ENRICHED_COLUMNS,
      rows |-> [i \in 1..Len(rs) |-> [id_hash |-> rs[i][1], val |-> rs[i][2], fault |-> "none"]]] :
        rs \in WordLists(ROW_KEYS \X ROW_VALUES, n)}

\* arg is the engine dialect, the table before the first call and the batch;
\* ret is the list of what the calls made so far have raised and left
InitUpsert ==
    /\ arg \in [dialect : DIALECTS, jobs : {EmptyTable}, df : Batches(MaxRows)]
    /\ pc = "ready"
    /\ fn = ""
    /\ ret = <<>>

CallUpsert ==
    /\ Len(ret) < MaxUpserts
    /\ pc' = "done"
    /\ fn' = "upsert"
    /\ ret' = Append(ret, upsert(arg.dialect,
                                 IF ret = <<>> THEN arg.jobs ELSE ret[Len(ret)].jobs,
                                 arg.df))
    /\ UNCHANGED arg

NextUpsert == CallUpsert

SpecUpsert == InitUpsert /\ [][NextUpsert]_vars


-----------------------------------------------------------------------------
(* ===== load: properties ===== *)

UpsertCalled == fn = "upsert" /\ pc = "done"

\* The table holds, for every key of the batch, the values of the last row of
\* the batch with that key, and nothing else
HoldsLastRows(table, rows) ==
    /\ DOMAIN table = {rows[i].id_hash : i \in 1..Len(rows)}
    /\ \A i \in 1..Len(rows) :
          (\A j \in (i + 1)..Len(rows) : rows[j].id_hash # rows[i].id_hash)
              => table[rows[i].id_hash] = rows[i].val

\* C19: for every dialect the code has a branch for, every upsert of the
\* same batch into the (initially empty) jobs table succeeds and leaves the
\* table as the first upsert left it: one row per id_hash, with the values of
\* the last row of the batch that has this id_hash.
UpsertIdempotent ==
    UpsertCalled =>
        \A c \in 1..Len(ret) :
            /\ ret[c].raised = NoneVal
            /\ ret[c].jobs = ret[1].jobs
            /\ HoldsLastRows(ret[c].jobs, arg.df.rows)

-----------------------------------------------------------------------------
(* ===== pipeline: run_pipeline, _safe_upsert ===== *)

(* arg is what the run is given: STRICT_SCHEMA, whether the database answers  *)
(* the preflight, and the chunks extract() yields, each a frame df with the   *)
(* number db_failures of upsert attempts the database fails for it.  ret is   *)
(* what the run has done so far: i, the index of the chunk at hand; tdf, its  *)
(* enriched frame; attempts, the upsert attempts made for it; jobs, the       *)
(* table; quarantine, the frames written to the quarantine directory;        *)
(* transforms and upserts, the calls made; log, the messages logged.         *)

\* stop_after_attempt(3)
RETRY_ATTEMPTS == 3

\* The dialect of the default DB_URL
DB_DIALECT == "postgresql"

OperationalError == [exc |-> "OperationalError", msg |-> "cannot connect"]
RetryError == [exc |-> "RetryError", msg |-> "stop_after_attempt"]

MaxChunks == 3

CHUNK_KINDS == {"empty", "healthy", "no_salary", "bad_row", "db_flaky", "db_down"}

\* The chunk of a kind at position k: no row or two, with keys of their own;
\* the second row of a bad_row chunk makes format_pairs raise
ChunkOfKind(kind, k) ==
    [df |-> [columns |-> IF kind = "no_salary" THEN {"job_title", "address", "company"}
                         ELSE {"job_title", "address", "salary", "company"},
             rows |-> IF kind = "empty" THEN <<>>
                      ELSE <<[id_hash |-> 2 * k - 1, val |-> k, fault |-> "none"],
                             [id_hash |-> 2 * k, val |-> k,
                              fault |-> IF kind = "bad_row" THEN "format_pairs" ELSE "none"]>>],
     db_failures |-> IF kind = "db_flaky" THEN RETRY_ATTEMPTS - 1
                     ELSE IF kind = "db_down" THEN RETRY_ATTEMPTS
                     ELSE 0]

PipelineInputs ==
    {[strict |-> s, preflight_ok |-> p,
      chunks |-> [k \in 1..Len(kinds) |-> ChunkOfKind(kinds[k], k)]] :
        s \in BOOLEAN, p \in BOOLEAN, kinds \in WordLists(CHUNK_KINDS, MaxChunks)}

InitPipeline ==
    /\ arg \in PipelineInputs
    /\ pc = "start"
    /\ fn = "run_pipeline"
    /\ ret = [i |-> 0, tdf |-> NoneVal, attempts |-> 0, jobs |-> EmptyTable,
              quarantine |-> <<>>, transforms |-> <<>>, upserts |-> <<>>,
              log |-> <<"ETL started">>]

\* with engine.connect(): pass, then create_table(engine)
Preflight ==
    /\ pc = "start"
    /\ IF arg.preflight_ok
       THEN /\ pc' = "loop"
            /\ ret' = ret
       ELSE /\ pc' = "raised"
            /\ ret' = [ret EXCEPT !.log = Append(@, "Cannot connect to DB")]
    /\ UNCHANGED <<arg, fn>>

\* The for statement takes the next chunk; an empty one is skipped
FetchChunk ==
    /\ pc = "loop"
    /\ ret.i < Len(arg.chunks)
    /\ pc' = IF arg.chunks[ret.i + 1].df.rows = <<>> THEN "loop" ELSE "transform"
    /\ ret' = [ret EXCEPT !.i = @ + 1, !.tdf = NoneVal, !.attempts = 0,
                          !.log = Append(@, "Chunk")]
    /\ UNCHANGED <<arg, fn>>

\* What transform(df) does to the run: the call, its quarantine file, and
\* tdf when it returns
AfterTransform(run, outcome) ==
    [run EXCEPT !.transforms = Append(@, [chunk_idx |-> run.i, outcome |-> outcome]),
                !.quarantine = IF outcome.quarantined = NoneVal THEN @
                               ELSE Append(@, [chunk_idx |-> run.i, df |-> outcome.quarantined]),
                !.tdf = outcome.returned]

\* Mutant of TransformChunk: the exception of transform ends the run.
TransformChunkUncaught ==
    /\ pc = "transform"
    /\ ret' = AfterTransform(ret, transform(arg.strict, arg.chunks[ret.i].df))
    /\ pc' = IF ret'.tdf = NoneVal THEN "raised" ELSE "upsert"
    /\ UNCHANGED <<arg, fn>>

\* tdf = transform(df, ...); except Exception: continue
TransformChunk ==
    /\ pc = "transform"
    /\ ret' = AfterTransform(ret, transform(arg.strict, arg.chunks[ret.i].df))
    /\ pc' = IF ret'.tdf = NoneVal THEN "loop" ELSE "upsert"
    /\ UNCHANGED <<arg, fn>>

\* One attempt of _safe_upsert: the database fails the first db_failures
\* attempts for the chunk, upsert runs in the others
Attempt(run, chunk) ==
    IF run.attempts + 1 <= chunk.db_failures
    THEN [raised |-> OperationalError, jobs |-> run.jobs]
    ELSE upsert(DB_DIALECT, run.jobs, run.tdf)

\* What an attempt that raised or returned does to the run; after the last
\* failed attempt the chunk is given up
AfterAttempt(run, result) ==
    [run EXCEPT !.attempts = @ + 1,
                !.jobs = result.jobs,
                !.upserts = Append(@, [chunk_idx |-> run.i, raised |-> result.raised]),
                !.log = IF result.raised = NoneVal THEN Append(@, "Loaded chunk")
                        ELSE IF run.attempts + 1 = RETRY_ATTEMPTS THEN Append(@, "Load failed")
                        ELSE @]

\* _safe_upsert(engine, tdf), one attempt per step
UpsertAttempt ==
    /\ pc = "upsert"
    /\ ret' = AfterAttempt(ret, Attempt(ret, arg.chunks[ret.i]))
    /\ pc' = IF ret'.upserts[Len(ret'.upserts)].raised = NoneVal \/ ret'.attempts = RETRY_ATTEMPTS
             THEN "loop" ELSE "upsert"
    /\ UNCHANGED <<arg, fn>>

\* The loop is over
Finish ==
    /\ pc = "loop"
    /\ ret.i = Len(arg.chunks)
    /\ pc' = "finished"
    /\ ret' = [ret EXCEPT !.log = Append(@, "ETL finished")]
    /\ UNCHANGED <<arg, fn>>

NextPipeline == Preflight \/ FetchChunk \/ TransformChunk \/ UpsertAttempt \/ Finish

SpecPipeline == InitPipeline /\ [][NextPipeline]_vars

\* The run goes on as long as it has a statement to execute
SpecPipelineLive == SpecPipeline /\ WF_vars(NextPipeline)

-----------------------------------------------------------------------------
(* ===== pipeline: properties ===== *)

\* The keys of the rows of a frame, in order
KeysOf(df) == [n \in 1..Len(df.rows) |-> df.rows[n].id_hash]

\* The schema of chunk k is accepted and a statement of the try block of
\* transform raises on it
EnrichmentRaises(k) ==
    /\ _validate_schema(arg.strict, arg.chunks[k].df) = NoneVal
    /\ RunSteps(1, arg.chunks[k].df, <<>>).raised # NoneVal

\* A quarantine file of chunk k holds all the rows of the chunk
QuarantinedWhole(k) ==
    \E q \in 1..Len(ret.quarantine) :
        /\ ret.quarantine[q].chunk_idx = k
        /\ KeysOf(ret.quarantine[q].df) = KeysOf(arg.chunks[k].df)

\* Chunk k was given to upsert
Forwarded(k) == \E u \in 1..Len(ret.upserts) : ret.upserts[u].chunk_idx = k

\* C17: when enrichment raises on a row of a chunk, transform has written the
\* whole chunk to quarantine and raised the exception again: it returned no
\* frame, the run holds no enriched frame for the chunk, and the chunk is
\* never given to upsert.
QuarantineOnError ==
    \A n \in 1..Len(ret.transforms) :
        EnrichmentRaises(ret.transforms[n].chunk_idx) =>
            /\ ret.transforms[n].outcome.raised =
                  RunSteps(1, arg.chunks[ret.transforms[n].chunk_idx].df, <<>>).raised
            /\ ret.transforms[n].outcome.returned = NoneVal
            /\ QuarantinedWhole(ret.transforms[n].chunk_idx)
            /\ ~Forwarded(ret.transforms[n].chunk_idx)
            /\ ret.transforms[n].chunk_idx = ret.i => ret.tdf = NoneVal

\* A chunk whose second row made format_pairs raise after parse_salary and
\* split_address_joined were applied, quarantined with both rows, and the
\* run finished
PipelineBadRowQuarantinedReached ==
    /\ fn = "run_pipeline" /\ pc = "finished"
    /\ \E n \in 1..Len(ret.transforms) :
          /\ ret.transforms[n].outcome.raised = RowError("format_pairs")
          /\ ret.transforms[n].outcome.applied # <<"format_pairs">>
          /\ Len(arg.chunks[ret.transforms[n].chunk_idx].df.rows) = 2
          /\ QuarantinedWhole(ret.transforms[n].chunk_idx)

\* The loop is done with chunk k
Handled(k) == k < ret.i \/ (k = ret.i /\ pc \in {"loop", "finished"})

\* C18: every non-empty chunk the loop is done with was written to
\* quarantine or given to upsert, and every chunk whose transform raised is
\* in quarantine.
QuarantinedOrForwarded ==
    /\ \A k \in 1..Len(arg.chunks) :
          Handled(k) /\ arg.chunks[k].df.rows # <<>> =>
              QuarantinedWhole(k) \/ Forwarded(k)
    /\ \A n \in 1..Len(ret.transforms) :
          ret.transforms[n].outcome.raised # NoneVal =>
              QuarantinedWhole(ret.transforms[n].chunk_idx)

\* Chunk k is not empty, transform returns for it, and the database takes it
\* within the attempts
Healthy(k) ==
    /\ arg.chunks[k].df.rows # <<>>
    /\ transform(arg.strict, arg.chunks[k].df).raised = NoneVal
    /\ arg.chunks[k].db_failures < RETRY_ATTEMPTS

\* The rows of chunk k are in the table
Loaded(k) ==
    \A n \in 1..Len(arg.chunks[k].df.rows) :
        /\ arg.chunks[k].df.rows[n].id_hash \in DOMAIN ret.jobs
        /\ ret.jobs[arg.chunks[k].df.rows[n].id_hash] = arg.chunks[k].df.rows[n].val

\* The chunks are taken in order: transform is called once per chunk, in
\* increasing order, and upsert only for chunks in the same order
OneAtATimeInOrder ==
    /\ \A m, n \in 1..Len(ret.transforms) :
          m < n => ret.transforms[m].chunk_idx < ret.transforms[n].chunk_idx
    /\ \A m, n \in 1..Len(ret.upserts) :
          m < n => ret.upserts[m].chunk_idx <= ret.upserts[n].chunk_idx
    /\ \A n \in 1..Len(ret.transforms) : ret.transforms[n].chunk_idx <= ret.i
    /\ \A n \in 1..Len(ret.upserts) :
          /\ ret.upserts[n].chunk_idx <= ret.i
          /\ \E m \in 1..Len(ret.transforms) :
                /\ ret.transforms[m].chunk_idx = ret.upserts[n].chunk_idx
                /\ ret.transforms[m].outcome.raised = NoneVal

\* No empty chunk was given to transform or to upsert
EmptyChunksSkipped ==
    /\ \A n \in 1..Len(ret.transforms) :
          arg.chunks[ret.transforms[n].chunk_idx].df.rows # <<>>
    /\ \A n \in 1..Len(ret.upserts) :
          arg.chunks[ret.upserts[n].chunk_idx].df.rows # <<>>

\* The run has logged "ETL finished" and every healthy chunk is loaded
FinishedAndLoaded ==
    /\ pc = "finished"
    /\ ret.log[Len(ret.log)] = "ETL finished"
    /\ \A k \in 1..Len(arg.chunks) : Healthy(k) => Loaded(k)

\* C20: after a successful preflight the chunks are handled one at a time in
\* order, empty chunks are never given to transform or upsert, and whatever
\* chunk fails in transform or in the 3 attempts of upsert, the run
\* eventually logs "ETL finished" with every healthy chunk loaded.
ChunkFailureConfined ==
    /\ [](OneAtATimeInOrder /\ EmptyChunksSkipped)
    /\ (fn = "run_pipeline" /\ pc = "loop") ~> FinishedAndLoaded

\* A run that finished with a healthy chunk loaded after a chunk that failed
\* in transform and a chunk that failed in all the attempts of upsert
PipelineLoadedAfterFailuresReached ==
    /\ fn = "run_pipeline" /\ pc = "finished"
    /\ \E j, k, l \in 1..Len(arg.chunks) :
          /\ j < l /\ k < l
          /\ transform(arg.strict, arg.chunks[j].df).raised # NoneVal
          /\ arg.chunks[k].db_failures = RETRY_ATTEMPTS
          /\ Cardinality({u \in 1..Len(ret.upserts) : ret.upserts[u].chunk_idx = k})
                = RETRY_ATTEMPTS
          /\ Healthy(l) /\ Loaded(l)

-----------------------------------------------------------------------------
(* ===== Address: texts of a single token ===== *)

\* The text is made of separator characters only
SeparatorOnly(s) == s # <<>> /\ \A i \in 1..Len(s) : s[i] \in ADDRESS_SEPARATORS

\* C21: an address text that splits on the separators (colon, comma,
\* semicolon, slash, hyphen, pipe) into exactly one non-empty token yields no
\* pairs, the comma-only retry included; and no city or district of a
\* returned pair is made up of separator characters only.
SingleTokenNoPairs ==
    AddressCalled /\ ~IsBlank(arg) =>
        /\ Len(StrippedNonEmpty(SplitOn(arg.s, ADDRESS_SEPARATORS))) = 1 => ret[1] = <<>>
        /\ \A i \in 1..Len(ret[1]) :
              ~SeparatorOnly(ret[1][i][1]) /\ ~SeparatorOnly(ret[1][i][2])

=============================================================================
